---- MODULE Spec2Model ----
(***************************************************************************)
(* A model of the image-capture extension's background core: the export    *)
(* (ZIP) pipeline with its single-flight flag, the capture pipeline over   *)
(* the IndexedDB store, and the thumbnail generator.                       *)
(*                                                                         *)
(* The background script is single-threaded and event driven: every action *)
(* below is one task of the event loop, i.e. the code between two await    *)
(* points (a promise continuation and everything it runs synchronously).   *)
(***************************************************************************)
EXTENDS Integers, Sequences, FiniteSets, TLC

\* ------------------------------------------------------------------ bounds
MaxImages == 3       \* most records in the store when an export starts
MaxCeiling == 2      \* largest chunk ceiling tried
MaxReq == 2          \* export requests (messages and menu clicks) per behaviour

\* ----------------------------------------------------------------- helpers
Max(a, b) == IF a >= b THEN a ELSE b
Min(a, b) == IF a <= b THEN a ELSE b

\* JavaScript Math.round(a / b) for a >= 0, b > 0: floor(a/b + 1/2).
RoundDiv(a, b) == (2 * a + b) \div (2 * b)

RECURSIVE SumSeq(_)
SumSeq(s) == IF s = <<>> THEN 0 ELSE Head(s) + SumSeq(Tail(s))

DigitChar(d) == <<"0", "1", "2", "3", "4", "5", "6", "7", "8", "9">>[d + 1]

\* The characters of n in decimal, as the template string `${n}` prints them.
RECURSIVE Digits(_)
Digits(n) == IF n < 10 THEN <<DigitChar(n)>>
             ELSE Append(Digits(n \div 10), DigitChar(n % 10))

\* ------------------------------------------------------------- sample data
\* Urls are numbered in key order (IndexedDB returns records sorted by key).
\* UrlPop(u) is url.split(".").pop().toLowerCase() of the sample url u:
\* "https://h/1.png", "https://h/2.jpeg", "https://h.org/3", ...
UrlPop(u) == CASE u % 3 = 1 -> "png"
               [] u % 3 = 2 -> "jpeg"
               [] OTHER     -> "org/x"

\* Content types a stored blob may declare.
ContentTypes == {"image/png", "image/jpeg", "image/x-icon"}

\* contentType.includes(s) for the probes the exporter uses.
Includes(ct, s) == CASE s = "jpeg" -> ct = "image/jpeg"
                     [] s = "png"  -> ct = "image/png"
                     [] OTHER      -> FALSE

SUPPORTED_IMAGE_EXTENSIONS == {"jpg", "jpeg", "png", "gif", "webp", "bmp", "svg"}
DEFAULT_EXTENSION == "png"
FILENAME_BASE == "image"

\* --------------------------------------------------------------- variables
VARIABLES
  store,                  \* the object store: url -> record, for the urls present
  badge,                  \* the action badge
  MAX_IMAGES_PER_ZIP,     \* the chunk ceiling (fixed at start)
  isZipOperationRunning,  \* the single-flight flag
  req,                    \* per export request: kind, response, outcome, events
  run,                    \* per export request: the state of its handleZipDownload
  downloads,              \* chrome.downloads: every download started, in order
  timers,                 \* pending setTimeout(updateBadge, 2000) callbacks
  cap,                    \* per capture call: the state of its fetchAndStoreImage
  notified,               \* the IMAGE_CAPTURED events sent, in order
  thumb,                  \* a generateThumbnailFromBlob call: input and result
  lazy,                   \* per loadImageThumbnailData call: its state and result
  scale,                  \* a thumbnail size computation: input and result
  dbVersion,              \* the schema version the database is stored at
  dbOp,                   \* the last call of the store API and its result
  page,                   \* one page context: its images and the content script
  startup,                \* the runtime.onStartup handler's position
  ops,                    \* per clear-all / delete-one message: handler state
  capMsg                  \* per capture call: the message response, if any

exportVars == <<MAX_IMAGES_PER_ZIP, isZipOperationRunning, req, run, downloads,
                timers>>
captureVars == <<cap, notified>>
thumbVars == <<thumb, lazy, scale>>
dbVars == <<dbVersion, dbOp, page, startup>>
msgVars == <<ops, capMsg>>
vars == <<store, badge, exportVars, captureVars, thumbVars, dbVars, msgVars>>

ReqIds == 1..MaxReq

\* ------------------------------------------------------------------- store
\* A record whose fileSize is not taken from the blob.
CapturedImage_NoSize(url, tabId, blob, thumbnail) ==
  [url |-> url, tabId |-> tabId, fullData |-> blob,
   thumbnailData |-> thumbnail, fileSize |-> 0]

\* createCapturedImage: the record the capture pipeline writes.
CapturedImage(url, tabId, blob, thumbnail) ==
  [url |-> url, tabId |-> tabId, fullData |-> blob,
   thumbnailData |-> thumbnail, fileSize |-> blob.size]

\* A blob: its declared type, its byte length, and whether its first 200
\* bytes read as an XML or SVG prologue.
Blob(type, size, markup) == [type |-> type, size |-> size, markup |-> markup]

\* A record's fullData when the optional field is not there.
NoBlob == Blob("absent", 0, FALSE)

RECURSIVE SortedSeq(_)
SortedSeq(S) == IF S = {} THEN <<>>
                ELSE LET m == CHOOSE x \in S : \A y \in S : x <= y
                     IN <<m>> \o SortedSeq(S \ {m})

\* store.getAll(): the records of a collection in key order.
getAll(s) == LET keys == SortedSeq(DOMAIN s)
             IN [k \in 1..Len(keys) |-> s[keys[k]]]

\* store.count().
count(s) == Cardinality(DOMAIN s)

\* loadAllImages and countImages on the object store.
loadAllImages == getAll(store)

countImages == count(store)

\* A put that refuses a key already present.
put_Add(s, image) ==
  IF image.url \in DOMAIN s THEN s
  ELSE [u \in DOMAIN s \cup {image.url} |-> IF u = image.url THEN image ELSE s[u]]

\* store.put(image): an upsert under the key path "url".
put(s, image) == [u \in DOMAIN s \cup {image.url} |->
                   IF u = image.url THEN image ELSE s[u]]

\* updateBadge: the count as text, hidden when zero.
CountBadge == IF countImages > 0 THEN [kind |-> "count", val |-> countImages]
              ELSE [kind |-> "empty", val |-> 0]

\* ---------------------------------------------------------------- zipUtils
\* chunkArray: slices of `size` consecutive elements, the last one shorter.
RECURSIVE chunkFrom(_, _, _)
chunkFrom(arr, size, i) ==
  IF i >= Len(arr) THEN <<>>
  ELSE <<SubSeq(arr, i + 1, Min(i + size, Len(arr)))>> \o chunkFrom(arr, size, i + size)

\* A chunkArray whose slices run one element too far.
RECURSIVE chunkFromOverlap(_, _, _)
chunkFromOverlap(arr, size, i) ==
  IF i >= Len(arr) THEN <<>>
  ELSE <<SubSeq(arr, i + 1, Min(i + size + 1, Len(arr)))>>
       \o chunkFromOverlap(arr, size, i + size)

chunkArray_Overlap(arr, size) == chunkFromOverlap(arr, size, 0)

chunkArray(arr, size) == chunkFrom(arr, size, 0)

\* A createFilename that leaves the index out of the name.
createFilename_NoIndex(index, extension) ==
  <<FILENAME_BASE, ".", IF extension = "" THEN DEFAULT_EXTENSION ELSE extension>>

\* createFilename: `image-${index + 1}.${extension || "png"}`.
createFilename(index, extension) ==
  <<FILENAME_BASE, "-">> \o Digits(index + 1)
    \o <<".", IF extension = "" THEN DEFAULT_EXTENSION ELSE extension>>

\* The extension the exporter picks for a record: from the blob's content
\* type, else (when that gave the default) from the url, else the default.
Extension(image) ==
  LET contentType == IF image.fullData.type = "" THEN "image/png"
                     ELSE image.fullData.type
      byType == IF Includes(contentType, "jpeg") \/ Includes(contentType, "jpg")
                  THEN "jpg"
                ELSE IF Includes(contentType, "png") THEN "png"
                ELSE IF Includes(contentType, "gif") THEN "gif"
                ELSE IF Includes(contentType, "webp") THEN "webp"
                ELSE IF Includes(contentType, "bmp") THEN "bmp"
                ELSE IF Includes(contentType, "svg") THEN "svg"
                ELSE "png"
      urlExt == UrlPop(image.url)
  IN IF byType = DEFAULT_EXTENSION /\ urlExt \in SUPPORTED_IMAGE_EXTENSIONS
       THEN (IF urlExt = "jpeg" THEN "jpg" ELSE urlExt)
       ELSE byType

\* Overall percentage reported before record j of chunk i is read.
ImageProgress(i, j, chunkLen, nChunks) ==
  RoundDiv(i * 100 + RoundDiv(j * 30, chunkLen), nChunks)

\* Whether record j of a chunk triggers a per-image report.
ReportsImage(j, chunkLen) == j % Max(1, chunkLen \div 10) = 0

\* Overall percentage reported when chunk i is about to be serialized.
PackagingProgress(i, nChunks) == RoundDiv(100 * i + 50, nChunks)

\* Overall percentage reported from the archiver's callback at `percent`.
GenerateProgress(i, percent, nChunks) == RoundDiv(i * 100 + percent, nChunks)

\* A chunk-done report that counts one chunk too many.
ChunkDoneProgress_OneMore(i, nChunks) == RoundDiv((i + 1) * 100, nChunks + 1)

\* Overall percentage reported when chunk i has been serialized.
ChunkDoneProgress(i, nChunks) == RoundDiv((i + 1) * 100, nChunks)

\* Rounded values of metadata.percent the archiver may report (in any
\* non-decreasing selection).
ZipPercents == {33, 100}

\* A file name that numbers the parts from zero.
fileName_ZeroBased(d, total) ==
  IF total > 1
    THEN <<"captured-images-", "DATE", "-part-">> \o Digits(d) \o <<".zip">>
    ELSE <<"captured-images-", "DATE", ".zip">>

\* downloadZipBlobs' file name for archive d (0-based) of `total`.
fileName(d, total) ==
  IF total > 1
    THEN <<"captured-images-", "DATE", "-part-">> \o Digits(d + 1) \o <<".zip">>
    ELSE <<"captured-images-", "DATE", ".zip">>

\* -------------------------------------------------------------- export run
IdleRun == [pc |-> "idle", images |-> <<>>, i |-> 0, j |-> 0, zip |-> <<>>,
            zipBlobs |-> <<>>, percent |-> 0, pct |-> 0, prevPct |-> 0, d |-> 0]

\* A request: how it arrived, the response sent to it, how its run ended, the
\* events the run emitted, and the chunks (total and serialized) at its end.
NoReq == [kind |-> "none", resp |-> "none", outcome |-> "none", events |-> <<>>,
          chunks |-> 0, built |-> 0]

Active(r) == run[r].pc # "idle"

\* The chunks of a run: chunkArray(images, ZIP_CONFIG.MAX_IMAGES_PER_ZIP).
Chunks(rs) == chunkArray(rs.images, MAX_IMAGES_PER_ZIP)

\* progressCallback(p): the report before it is kept to compare the two.
Report(rs, p) == [rs EXCEPT !.prevPct = rs.pct, !.pct = p]

\* The badge handleZipDownload's progress callback shows.
ProgressBadge(p) == [kind |-> "pct", val |-> p]

\* The record loop of chunk i from record j up to its next await: records
\* without fullData are skipped; a record with fullData is reported (every
\* tenth of the chunk) and its bytes requested (pc "img"); at the end of the
\* chunk the packaging report is made and generateAsync called (pc "zip").
RECURSIVE EnterImage(_)
EnterImage(rs) ==
  LET chunks == Chunks(rs)
      chunk == chunks[rs.i + 1]
  IN IF rs.j >= Len(chunk)
       THEN [Report(rs, PackagingProgress(rs.i, Len(chunks)))
               EXCEPT !.pc = "zip", !.percent = 0]
     ELSE IF chunk[rs.j + 1].fullData = NoBlob
       THEN EnterImage([rs EXCEPT !.j = rs.j + 1])
     ELSE [(IF ReportsImage(rs.j, Len(chunk))
              THEN Report(rs, ImageProgress(rs.i, rs.j, Len(chunk), Len(chunks)))
              ELSE rs)
             EXCEPT !.pc = "img"]

\* The guard of both export entry points.
AlreadyRunning_Never == FALSE

AlreadyRunning == isZipOperationRunning

\* The least request id not used yet.
Fresh(r) == req[r].kind = "none" /\ \A q \in ReqIds : q < r => req[q].kind # "none"

\* onMessage ZIP_AND_DOWNLOAD_ALL_IMAGES -> handleZipAndDownloadAllImages, up
\* to its first await (loadAllImages inside handleZipDownload).
handleZipAndDownloadAllImages(r) ==
  /\ Fresh(r)
  /\ IF AlreadyRunning
       THEN /\ req' = [req EXCEPT ![r] = [NoReq EXCEPT !.kind = "msg",
                                            !.resp = "already",
                                            !.outcome = "rejected"]]
            /\ UNCHANGED <<isZipOperationRunning, run>>
       ELSE /\ isZipOperationRunning' = TRUE
            /\ req' = [req EXCEPT ![r] = [NoReq EXCEPT !.kind = "msg"]]
            /\ run' = [run EXCEPT ![r] = [IdleRun EXCEPT !.pc = "load"]]
  /\ UNCHANGED <<captureVars, thumbVars, dbVars, msgVars, store, badge, MAX_IMAGES_PER_ZIP, downloads, timers>>

\* contextMenus.onClicked with downloadAllAsZip, up to its first await.
onClickedDownloadAllAsZip(r) ==
  /\ Fresh(r)
  /\ IF AlreadyRunning
       THEN /\ req' = [req EXCEPT ![r] = [NoReq EXCEPT !.kind = "menu",
                                            !.outcome = "ignored"]]
            /\ UNCHANGED <<isZipOperationRunning, run>>
       ELSE /\ isZipOperationRunning' = TRUE
            /\ req' = [req EXCEPT ![r] = [NoReq EXCEPT !.kind = "menu"]]
            /\ run' = [run EXCEPT ![r] = [IdleRun EXCEPT !.pc = "load"]]
  /\ UNCHANGED <<captureVars, thumbVars, dbVars, msgVars, store, badge, MAX_IMAGES_PER_ZIP, downloads, timers>>

\* Whether the flag stays set when a run ends by an error.
FlagAfterError_Stuck == TRUE

FlagAfterError == FALSE

\* handleZipDownload returned: the caller clears the flag; the message
\* handler answers success, the menu handler shows OK and arms the timer
\* that restores the count badge.
Returned(r, why, evts) ==
  /\ isZipOperationRunning' = FALSE
  /\ run' = [run EXCEPT ![r] = IdleRun]
  /\ req' = [req EXCEPT ![r].outcome = why,
                        ![r].events = req[r].events \o evts,
                        ![r].chunks = Len(Chunks(run[r])),
                        ![r].built = Len(run[r].zipBlobs),
                        ![r].resp = IF req[r].kind = "msg" THEN "ok" ELSE "none"]
  /\ IF req[r].kind = "menu"
       THEN badge' = [kind |-> "OK", val |-> 0] /\ timers' = timers + 1
       ELSE UNCHANGED <<badge, timers>>

\* handleZipDownload threw: its catch emits ZIP_DOWNLOAD_ERROR and rethrows;
\* the caller's catch clears the flag; the message handler answers failure,
\* the menu handler shows ERR and arms the timer.
Thrown(r, why) ==
  /\ isZipOperationRunning' = FlagAfterError
  /\ run' = [run EXCEPT ![r] = IdleRun]
  /\ req' = [req EXCEPT ![r].outcome = why,
                        ![r].events = Append(req[r].events, "ZIP_DOWNLOAD_ERROR"),
                        ![r].chunks = Len(Chunks(run[r])),
                        ![r].built = Len(run[r].zipBlobs),
                        ![r].resp = IF req[r].kind = "msg" THEN "fail" ELSE "none"]
  /\ IF req[r].kind = "menu"
       THEN badge' = [kind |-> "ERR", val |-> 0] /\ timers' = timers + 1
       ELSE UNCHANGED <<badge, timers>>

\* An empty store treated as a failed export.
EmptyExport_Throws(r) == Thrown(r, "empty")

\* handleZipDownload with nothing to export: it logs and returns, emitting
\* no event.
EmptyExport(r) == Returned(r, "empty", <<>>)

\* loadAllImages resolved: an empty store returns at once; otherwise
\* createZipFromCapturedImages starts (report 0, chunk 0, record 0).
LoadResolved(r) ==
  /\ run[r].pc = "load"
  /\ LET all == loadAllImages
     IN IF Len(all) = 0
          THEN EmptyExport(r)
          ELSE LET rs == EnterImage(Report([run[r] EXCEPT !.images = all], 0))
               IN /\ run' = [run EXCEPT ![r] = rs]
                  /\ badge' = ProgressBadge(rs.pct)
                  /\ UNCHANGED <<isZipOperationRunning, req, timers>>
  /\ UNCHANGED <<captureVars, thumbVars, dbVars, msgVars, store, MAX_IMAGES_PER_ZIP, downloads>>

\* loadAllImages rejected (the store could not be opened or read).
LoadRejected(r) ==
  /\ run[r].pc = "load"
  /\ Thrown(r, "load_fail")
  /\ UNCHANGED <<captureVars, thumbVars, dbVars, msgVars, store, MAX_IMAGES_PER_ZIP, downloads>>

\* A record loop that leaves out a record no longer in the store.
ArrayBufferResolved_Live(r) ==
  /\ run[r].pc = "img"
  /\ LET rs == run[r]
         image == Chunks(rs)[rs.i + 1][rs.j + 1]
         imageIndex == rs.i * MAX_IMAGES_PER_ZIP + rs.j
         filename == createFilename(imageIndex, Extension(image))
         next == EnterImage([rs EXCEPT
                   !.zip = IF image.url \in DOMAIN store
                             THEN Append(rs.zip, [name |-> filename, url |-> image.url])
                             ELSE rs.zip,
                   !.j = rs.j + 1])
     IN /\ run' = [run EXCEPT ![r] = next]
        /\ badge' = ProgressBadge(next.pct)
  /\ UNCHANGED <<captureVars, thumbVars, dbVars, msgVars, store, MAX_IMAGES_PER_ZIP, isZipOperationRunning, req,
                 downloads, timers>>

\* image.fullData.arrayBuffer() resolved: the entry is added under its file
\* name and the loop goes on to the next record.
ArrayBufferResolved(r) ==
  /\ run[r].pc = "img"
  /\ LET rs == run[r]
         image == Chunks(rs)[rs.i + 1][rs.j + 1]
         imageIndex == rs.i * MAX_IMAGES_PER_ZIP + rs.j
         filename == createFilename(imageIndex, Extension(image))
         next == EnterImage([rs EXCEPT
                   !.zip = Append(rs.zip, [name |-> filename, url |-> image.url]),
                   !.j = rs.j + 1])
     IN /\ run' = [run EXCEPT ![r] = next]
        /\ badge' = ProgressBadge(next.pct)
  /\ UNCHANGED <<captureVars, thumbVars, dbVars, msgVars, store, MAX_IMAGES_PER_ZIP, isZipOperationRunning, req,
                 downloads, timers>>

\* image.fullData.arrayBuffer() rejected.
ArrayBufferRejected(r) ==
  /\ run[r].pc = "img"
  /\ Thrown(r, "read_fail")
  /\ UNCHANGED <<captureVars, thumbVars, dbVars, msgVars, store, MAX_IMAGES_PER_ZIP, downloads>>

\* The archiver's progress callback during generateAsync.
GenerateUpdate(r, percent) ==
  /\ run[r].pc = "zip"
  /\ percent > run[r].percent
  /\ LET rs == run[r]
         next == Report([rs EXCEPT !.percent = percent],
                        GenerateProgress(rs.i, percent, Len(Chunks(rs))))
     IN /\ run' = [run EXCEPT ![r] = next]
        /\ badge' = ProgressBadge(next.pct)
  /\ UNCHANGED <<captureVars, thumbVars, dbVars, msgVars, store, MAX_IMAGES_PER_ZIP, isZipOperationRunning, req,
                 downloads, timers>>

\* generateAsync resolved: the archive is kept, the chunk reported done; then
\* the next chunk starts or, after the last one, handleZipDownload awaits
\* updateBadge.
GenerateResolved(r) ==
  /\ run[r].pc = "zip"
  /\ LET rs == run[r]
         n == Len(Chunks(rs))
         done == Report([rs EXCEPT !.zipBlobs = Append(rs.zipBlobs, rs.zip)],
                        ChunkDoneProgress(rs.i, n))
         next == IF rs.i + 1 < n
                   THEN EnterImage([done EXCEPT !.i = rs.i + 1, !.j = 0,
                                                !.zip = <<>>])
                   ELSE [done EXCEPT !.pc = "badge", !.zip = <<>>]
     IN /\ run' = [run EXCEPT ![r] = next]
        /\ badge' = ProgressBadge(next.pct)
  /\ UNCHANGED <<captureVars, thumbVars, dbVars, msgVars, store, MAX_IMAGES_PER_ZIP, isZipOperationRunning, req,
                 downloads, timers>>

\* A generateAsync that swallows the failure and goes on with the next chunk.
GenerateRejected_Continue(r) ==
  /\ run[r].pc = "zip"
  /\ LET rs == run[r]
         n == Len(Chunks(rs))
         next == IF rs.i + 1 < n
                   THEN EnterImage([rs EXCEPT !.i = rs.i + 1, !.j = 0, !.zip = <<>>])
                   ELSE [rs EXCEPT !.pc = "badge", !.zip = <<>>]
     IN /\ run' = [run EXCEPT ![r] = next]
        /\ req' = [req EXCEPT ![r].outcome = "zip_fail"]
  /\ UNCHANGED <<captureVars, thumbVars, dbVars, msgVars, store, badge, MAX_IMAGES_PER_ZIP, isZipOperationRunning,
                 downloads, timers>>

\* generateAsync rejected: createZipFromCapturedImages throws.
GenerateRejected(r) ==
  /\ run[r].pc = "zip"
  /\ Thrown(r, "zip_fail")
  /\ UNCHANGED <<captureVars, thumbVars, dbVars, msgVars, store, MAX_IMAGES_PER_ZIP, downloads>>

\* ---------------------------------------------------------------- delivery
\* The entry of `downloads` for the archive run r is delivering.
CurrentDownload(r) ==
  CHOOSE k \in 1..Len(downloads) :
    downloads[k].run = r /\ downloads[k].part = run[r].d

\* A build that goes on to the delivery without restoring the badge.
BadgeUpdated_Skipped(r) ==
  /\ run[r].pc = "badge"
  /\ run' = [run EXCEPT ![r].pc = "dataurl", ![r].d = 0]
  /\ UNCHANGED <<captureVars, thumbVars, dbVars, msgVars, store, badge,
                 MAX_IMAGES_PER_ZIP, isZipOperationRunning, req, downloads, timers>>

\* updateBadge after the build resolved (the count, or "!" when the count
\* could not be read); downloadZipBlobs starts with archive 0, whose bytes
\* blobToDataURL reads first.
BadgeUpdated(r) ==
  /\ run[r].pc = "badge"
  /\ \E ok \in BOOLEAN :
       badge' = IF ok THEN CountBadge ELSE [kind |-> "!", val |-> 0]
  /\ run' = [run EXCEPT ![r].pc = "dataurl", ![r].d = 0]
  /\ UNCHANGED <<captureVars, thumbVars, dbVars, msgVars, store, MAX_IMAGES_PER_ZIP,
                 isZipOperationRunning, req, downloads, timers>>

\* blobToDataURL resolved: chrome.downloads.download is called with the
\* archive and its name.
DataUrlResolved(r) ==
  /\ run[r].pc = "dataurl"
  /\ downloads' = Append(downloads,
                         [run |-> r, part |-> run[r].d, state |-> "starting",
                          name |-> fileName(run[r].d, Len(run[r].zipBlobs))])
  /\ run' = [run EXCEPT ![r].pc = "dl_call"]
  /\ UNCHANGED <<captureVars, thumbVars, dbVars, msgVars, store, badge, MAX_IMAGES_PER_ZIP,
                 isZipOperationRunning, req, timers>>

\* blobToDataURL rejected: the delivery cannot be started.
DataUrlRejected(r) ==
  /\ run[r].pc = "dataurl"
  /\ Thrown(r, "dl_fail")
  /\ UNCHANGED <<captureVars, thumbVars, dbVars, msgVars, store, MAX_IMAGES_PER_ZIP, downloads>>

\* A download callback that resolves without waiting for the completion.
DownloadStarted_NoWait(r) ==
  /\ run[r].pc = "dl_call"
  /\ downloads' = [downloads EXCEPT ![CurrentDownload(r)].state = "in_progress"]
  /\ IF run[r].d + 1 < Len(run[r].zipBlobs)
       THEN /\ run' = [run EXCEPT ![r].pc = "dataurl", ![r].d = run[r].d + 1]
            /\ UNCHANGED <<isZipOperationRunning, req, badge, timers>>
       ELSE Returned(r, "ok", <<"ZIP_DOWNLOAD_COMPLETE">>)
  /\ UNCHANGED <<captureVars, thumbVars, dbVars, msgVars, store, MAX_IMAGES_PER_ZIP>>

\* The download callback without lastError: waitForDownloadComplete
\* registers its onChanged listener for the download id. The download is
\* in progress, unless it has settled already.
DownloadStarted(r) ==
  /\ run[r].pc = "dl_call"
  /\ downloads' = [downloads EXCEPT ![CurrentDownload(r)].state =
                     IF @ = "starting" THEN "in_progress" ELSE @]
  /\ run' = [run EXCEPT ![r].pc = "dl_wait"]
  /\ UNCHANGED <<captureVars, thumbVars, dbVars, msgVars, store, badge, MAX_IMAGES_PER_ZIP,
                 isZipOperationRunning, req, timers>>

\* The browser finishes the download, completed or interrupted, before the
\* download callback has run: onChanged is dispatched while no listener of
\* waitForDownloadComplete is registered, and nobody hears it.
DownloadSettledEarly(r, state) ==
  /\ run[r].pc = "dl_call"
  /\ downloads[CurrentDownload(r)].state = "starting"
  /\ state \in {"complete", "interrupted"}
  /\ downloads' = [downloads EXCEPT ![CurrentDownload(r)].state = state]
  /\ UNCHANGED <<captureVars, thumbVars, dbVars, msgVars, store, badge, MAX_IMAGES_PER_ZIP,
                 isZipOperationRunning, req, run, timers>>

\* The download callback with lastError set: downloadBlob rejects.
DownloadNotStarted(r) ==
  /\ run[r].pc = "dl_call"
  /\ downloads[CurrentDownload(r)].state = "starting"
  /\ downloads' = [downloads EXCEPT ![CurrentDownload(r)].state = "failed"]
  /\ Thrown(r, "dl_fail")
  /\ UNCHANGED <<captureVars, thumbVars, dbVars, msgVars, store, MAX_IMAGES_PER_ZIP>>

\* onChanged with state "complete" for the awaited download: the next
\* archive follows, or after the last one ZIP_DOWNLOAD_COMPLETE is emitted
\* and handleZipDownload returns.
DownloadCompleted(r) ==
  /\ run[r].pc = "dl_wait"
  /\ downloads[CurrentDownload(r)].state = "in_progress"
  /\ downloads' = [downloads EXCEPT ![CurrentDownload(r)].state = "complete"]
  /\ IF run[r].d + 1 < Len(run[r].zipBlobs)
       THEN /\ run' = [run EXCEPT ![r].pc = "dataurl", ![r].d = run[r].d + 1]
            /\ UNCHANGED <<isZipOperationRunning, req, badge, timers>>
       ELSE Returned(r, "ok", <<"ZIP_DOWNLOAD_COMPLETE">>)
  /\ UNCHANGED <<captureVars, thumbVars, dbVars, msgVars, store, MAX_IMAGES_PER_ZIP>>

\* A listener that takes an interruption for a completion.
DownloadInterrupted_AsComplete(r) ==
  /\ run[r].pc = "dl_wait"
  /\ downloads' = [downloads EXCEPT ![CurrentDownload(r)].state = "interrupted"]
  /\ IF run[r].d + 1 < Len(run[r].zipBlobs)
       THEN /\ run' = [run EXCEPT ![r].pc = "dataurl", ![r].d = run[r].d + 1]
            /\ UNCHANGED <<isZipOperationRunning, req, badge, timers>>
       ELSE Returned(r, "ok", <<"ZIP_DOWNLOAD_COMPLETE">>)
  /\ UNCHANGED <<captureVars, thumbVars, dbVars, msgVars, store, MAX_IMAGES_PER_ZIP>>

\* onChanged with state "interrupted" for the awaited download.
DownloadInterrupted(r) ==
  /\ run[r].pc = "dl_wait"
  /\ downloads[CurrentDownload(r)].state = "in_progress"
  /\ downloads' = [downloads EXCEPT ![CurrentDownload(r)].state = "interrupted"]
  /\ Thrown(r, "dl_fail")
  /\ UNCHANGED <<captureVars, thumbVars, dbVars, msgVars, store, MAX_IMAGES_PER_ZIP>>

\* The menu handler's setTimeout callback: updateBadge.
BadgeRestoreTimer ==
  /\ timers > 0
  /\ timers' = timers - 1
  /\ \E ok \in BOOLEAN :
       badge' = IF ok THEN CountBadge ELSE [kind |-> "!", val |-> 0]
  /\ UNCHANGED <<captureVars, thumbVars, dbVars, msgVars, store, MAX_IMAGES_PER_ZIP,
                 isZipOperationRunning, req, run, downloads>>

\* --------------------------------------------------------------- thumbnail
\* What the platform does during one generateThumbnailFromBlob call: whether
\* the head of the blob can be read, createImageBitmap(blob) succeeds, what
\* blob.text() gives ("ok", the empty string, or a failure read as null), the
\* Image element loads the markup, createImageBitmap(img) succeeds, a canvas
\* with a 2D context is there, drawImage succeeds, and the JPEG encoding and
\* its read as a data URL succeed.
ThumbEnvs ==
  [headOk : BOOLEAN, bitmapOk : BOOLEAN, text : {"ok", "empty", "null"},
   imgOk : BOOLEAN, imgBitmapOk : BOOLEAN, ctxOk : BOOLEAN, drawOk : BOOLEAN,
   encodeOk : BOOLEAN]

NoThumb == [blob |-> NoBlob, env |-> "none", result |-> [status |-> "none", value |-> "none"]]

Resolved(uri) == [status |-> "resolved", value |-> uri]
Rejected == [status |-> "rejected", value |-> "none"]
Pending == [status |-> "pending", value |-> "none"]

\* isProbablySvg: by the declared type, else by the head of the text.
isProbablySvg(blob, env) ==
  blob.type = "image/svg+xml" \/ (env.headOk /\ blob.markup)

\* generateThumbnailFromBlob: the promise's outcome for a blob under env.
generateThumbnailFromBlob(blob, env) ==
  LET svg == isProbablySvg(blob, env)
      \* the raw markup as a data URI, when it can be read
      rawSvg == IF env.text # "null" THEN Resolved("rawsvg") ELSE Rejected
      \* from the bitmap on: canvas, draw, encode
      drawn == IF ~env.ctxOk \/ ~env.drawOk THEN Rejected
               ELSE IF env.encodeOk THEN Resolved("jpeg")
               ELSE IF svg /\ env.text # "null" THEN Resolved("rawsvg")
               ELSE Resolved("placeholder")
  IN IF env.bitmapOk THEN drawn
     ELSE IF ~svg THEN Rejected
     ELSE IF env.text = "ok" /\ env.imgOk /\ env.imgBitmapOk THEN drawn
     ELSE rawSvg

\* The blobs a thumbnail may be asked for.
ThumbBlobs ==
  { Blob(t, 1, m) : t \in {"image/png", "image/svg+xml", ""}, m \in BOOLEAN }

\* The thumbnail size: sources of up to MaxSide pixels a side, boxes of up
\* to MaxBox.
MaxSide == 4

MaxBox == 3

NoScale == [width |-> 0, height |-> 0, maxWidth |-> 0, maxHeight |-> 0,
            thumbWidth |-> 0, thumbHeight |-> 0, done |-> FALSE]

\* The size the canvas is made with for a bitmap of width x height: the
\* longer side is cut to its maximum and the other side scaled with
\* Math.round; a square or upright bitmap is tested against maxHeight, a
\* lying one against maxWidth.
thumbnailSize(width, height, maxWidth, maxHeight) ==
  IF width > height
    THEN IF width > maxWidth
           THEN [thumbWidth |-> maxWidth,
                 thumbHeight |-> RoundDiv(height * maxWidth, width)]
           ELSE [thumbWidth |-> width, thumbHeight |-> height]
    ELSE IF height > maxHeight
           THEN [thumbWidth |-> RoundDiv(width * maxHeight, height),
                 thumbHeight |-> maxHeight]
           ELSE [thumbWidth |-> width, thumbHeight |-> height]

\* The size is computed for the bitmap at hand.
ThumbnailSized ==
  /\ ~scale.done /\ scale.width > 0
  /\ LET size == thumbnailSize(scale.width, scale.height, scale.maxWidth,
                               scale.maxHeight)
     IN scale' = [scale EXCEPT !.thumbWidth = size.thumbWidth,
                               !.thumbHeight = size.thumbHeight, !.done = TRUE]
  /\ UNCHANGED <<store, badge, exportVars, captureVars, dbVars, msgVars, thumb, lazy>>

\* One call of generateThumbnailFromBlob settles.
ThumbnailSettled ==
  /\ thumb.result = Pending
  /\ thumb' = [thumb EXCEPT !.result = generateThumbnailFromBlob(thumb.blob, thumb.env)]
  /\ UNCHANGED <<store, badge, exportVars, captureVars, dbVars, msgVars, lazy, scale>>

\* ----------------------------------------------------------------- capture
MaxCaps == 2         \* capture calls per behaviour
MaxUrls == 2         \* distinct urls captured

CapIds == 1..MaxCaps
Urls == 1..MaxUrls
TabIds == {7, 8}

\* What a fetch of a url returns: a decodable-or-not PNG, a page that is not
\* an image, or an SVG document, by url.
FetchBlobs == {Blob("image/png", 1, FALSE), Blob("text/html", 3, FALSE),
               Blob("image/svg+xml", 2, TRUE)}

Response(url) == CASE url % 3 = 1 -> Blob("image/png", 1, FALSE)
                   [] url % 3 = 2 -> Blob("text/html", 3, FALSE)
                   [] OTHER       -> Blob("image/svg+xml", 2, TRUE)

\* mimeType.startsWith("image/")
IsImageType(type) == type \in {"image/png", "image/jpeg", "image/svg+xml",
                                "image/x-icon"}

NoCap == [pc |-> "none", url |-> 0, tabId |-> 0, blob |-> NoBlob,
          thumbnail |-> "none", outcome |-> "none"]

\* A capture call is over; only its url, tab and outcome are kept.
Settle(c, why) ==
  cap' = [cap EXCEPT ![c] = [NoCap EXCEPT !.pc = "done", !.outcome = why,
                                          !.url = cap[c].url,
                                          !.tabId = cap[c].tabId]]

\* fetchAndStoreImage(url, tabId) is called (from webRequest.onCompleted or
\* from a CHECK_AND_CAPTURE_IMAGE message) and awaits the existence check.
fetchAndStoreImage(c, url, tabId) ==
  /\ cap[c].pc = "none"
  /\ \A q \in CapIds : q < c => cap[q].pc # "none"
  /\ cap' = [cap EXCEPT ![c] = [NoCap EXCEPT !.pc = "check", !.url = url,
                                              !.tabId = tabId]]
  /\ UNCHANGED <<store, badge, notified, exportVars, thumbVars, dbVars, msgVars>>

\* An existence check whose answer is ignored.
ExistenceChecked_Refetch(c) ==
  /\ cap[c].pc = "check"
  /\ cap' = [cap EXCEPT ![c].pc = "fetch"]
  /\ UNCHANGED <<store, badge, notified, exportVars, thumbVars, dbVars, msgVars>>

\* loadImageByUrl resolved: a record found ends the capture, else the
\* fetch starts.
ExistenceChecked(c) ==
  /\ cap[c].pc = "check"
  /\ IF cap[c].url \in DOMAIN store
       THEN Settle(c, "dup")
       ELSE cap' = [cap EXCEPT ![c].pc = "fetch"]
  /\ UNCHANGED <<store, badge, notified, exportVars, thumbVars, dbVars, msgVars>>

\* loadImageByUrl rejected: caught and logged.
ExistenceCheckFailed(c) ==
  /\ cap[c].pc = "check"
  /\ Settle(c, "store_error")
  /\ UNCHANGED <<store, badge, notified, exportVars, thumbVars, dbVars, msgVars>>

\* fetch and response.blob() resolved with an OK response: a non-image is
\* skipped, an image goes to createCapturedImage, which awaits its thumbnail.
Fetched(c, blob) ==
  /\ cap[c].pc = "fetch"
  /\ blob = Response(cap[c].url)
  /\ IF ~IsImageType(blob.type) /\ blob.type # "image/svg+xml"
       THEN Settle(c, "skipped")
       ELSE cap' = [cap EXCEPT ![c].pc = "thumb", ![c].blob = blob]
  /\ UNCHANGED <<store, badge, notified, exportVars, thumbVars, dbVars, msgVars>>

\* A capture that starts over when its fetch fails.
FetchFailed_Retry(c) ==
  /\ cap[c].pc = "fetch"
  /\ cap' = [cap EXCEPT ![c].pc = "check"]
  /\ UNCHANGED <<store, badge, notified, exportVars, thumbVars, dbVars, msgVars>>

\* fetch rejected or the response was not OK: caught and logged.
FetchFailed(c) ==
  /\ cap[c].pc = "fetch"
  /\ Settle(c, "fetch_error")
  /\ UNCHANGED <<store, badge, notified, exportVars, thumbVars, dbVars, msgVars>>

\* The outcomes generateThumbnailFromBlob may have for a blob.
ThumbnailOutcomes(blob) ==
  { generateThumbnailFromBlob(blob, env) : env \in ThumbEnvs }

\* generateThumbnailFromBlob settled: a thumbnail makes the record, which
\* saveImage is asked to put; a rejection is caught and ends the capture.
ThumbnailDone(c) ==
  /\ cap[c].pc = "thumb"
  /\ \E t \in ThumbnailOutcomes(cap[c].blob) :
       IF t.status = "rejected"
         THEN Settle(c, "thumb_error")
         ELSE cap' = [cap EXCEPT ![c].pc = "put", ![c].thumbnail = t.value]
  /\ UNCHANGED <<store, badge, notified, exportVars, thumbVars, dbVars, msgVars>>

\* saveImage: store.put(image), an upsert under the key path "url".
saveImage(image) == store' = put(store, image)

\* saveImage resolved; updateBadge is awaited next.
Saved(c) ==
  /\ cap[c].pc = "put"
  /\ saveImage(CapturedImage(cap[c].url, cap[c].tabId, cap[c].blob,
                             cap[c].thumbnail))
  /\ cap' = [cap EXCEPT ![c].pc = "badge"]
  /\ UNCHANGED <<badge, notified, exportVars, thumbVars, dbVars, msgVars>>

\* saveImage rejected: caught and logged.
SaveFailed(c) ==
  /\ cap[c].pc = "put"
  /\ Settle(c, "store_error")
  /\ UNCHANGED <<store, badge, notified, exportVars, thumbVars, dbVars, msgVars>>

\* An IMAGE_CAPTURED event that carries the whole record.
notifyImageCaptured_Whole(image) == image

\* notifyImageCaptured(image): the IMAGE_CAPTURED event picks url, tabId
\* and timestamp out of the record (records here carry no timestamp, so
\* the event carries none either).
notifyImageCaptured(image) == [url |-> image.url, tabId |-> image.tabId]

\* updateBadge settled (the count, or "!" when it could not be read), then
\* notifyImageCaptured sends IMAGE_CAPTURED for the record just made.
BadgeThenNotify(c) ==
  /\ cap[c].pc = "badge"
  /\ \E ok \in BOOLEAN :
       badge' = IF ok THEN CountBadge ELSE [kind |-> "!", val |-> 0]
  /\ notified' = Append(notified,
                        notifyImageCaptured(CapturedImage(cap[c].url, cap[c].tabId,
                                                          cap[c].blob, cap[c].thumbnail)))
  /\ Settle(c, "stored")
  /\ UNCHANGED <<store, exportVars, thumbVars, dbVars, msgVars>>

\* ---------------------------------------------------------- store: the API
MaxOps == 1          \* clear-all / delete-one messages per behaviour

DB_VERSION == 2

\* The versions a stored database may have: none yet (0), older, current,
\* newer.
DbVersions == 0..(DB_VERSION + 1)

\* Nothing has been called, no message is being handled.
NoDbOp == [op |-> "none", ok |-> TRUE, arg |-> <<>>, result |-> <<>>,
           before |-> <<>>, version |-> DB_VERSION]

OpIds == 1..MaxOps

\* A clear-all or delete-one message: its handler's position, the key it
\* names, whether its store operation succeeded, and the response sent.
NoOp == [kind |-> "none", pc |-> "none", imageId |-> 0, applied |-> FALSE,
         resp |-> "none"]

\* ---------------------------------------------------------- content script
MaxElems == 2        \* <img> elements of the page

Elems == 1..MaxElems

\* What an img.src may be: nothing (0), a url of the extension's own
\* resources, or a url of the page.
OwnUrl == MaxUrls + 1

Srcs == {0, OwnUrl} \cup Urls

\* A page context: the elements in the document, each element's src, the
\* content script's seenUrls and processedElements, the capture messages
\* it sent, how often each element passed processImageElement's guards,
\* whether the script has started and whether a refresh has run.
NoPage == [dom |-> {}, src |-> [e \in Elems |-> 0], seenUrls |-> {},
           processedElements |-> {}, sent |-> <<>>,
           processed |-> [e \in Elems |-> 0], started |-> FALSE,
           refreshed |-> FALSE]

\* A sendCaptureMessage that does not consult seenUrls.
sendCaptureMessage_NoSeen(p, url) ==
  IF url = 0 THEN p
  ELSE [p EXCEPT !.seenUrls = p.seenUrls \cup {url}, !.sent = Append(p.sent, url)]

\* sendCaptureMessage(url): nothing without a url or for a url seen
\* already; else the url is remembered and CHECK_AND_CAPTURE_IMAGE sent.
sendCaptureMessage(p, url) ==
  IF url = 0 THEN p
  ELSE IF url \in p.seenUrls THEN p
  ELSE [p EXCEPT !.seenUrls = p.seenUrls \cup {url}, !.sent = Append(p.sent, url)]

\* processImageElement(img): an element without src, with a src of the
\* extension, or processed before is passed over; else it is remembered
\* and its src handed to sendCaptureMessage.
processImageElement(p, img) ==
  IF p.src[img] = 0 THEN p
  ELSE IF p.src[img] = OwnUrl THEN p
  ELSE IF img \in p.processedElements THEN p
  ELSE sendCaptureMessage(
         [p EXCEPT !.processedElements = p.processedElements \cup {img},
                   !.processed[img] = p.processed[img] + 1],
         p.src[img])

\* processImageElement for each element of imgs, in document order.
RECURSIVE processAll(_, _)
processAll(p, imgs) ==
  IF imgs = <<>> THEN p
  ELSE processAll(processImageElement(p, Head(imgs)), Tail(imgs))

\* capturePageImages: every <img> of the document is processed.
capturePageImages(p) == processAll(p, SortedSeq(p.dom))

\* The content script starts: the initial scan, then the observer.
ContentScriptStarted ==
  /\ ~page.started
  /\ page' = [capturePageImages(page) EXCEPT !.started = TRUE]
  /\ UNCHANGED <<store, badge, exportVars, captureVars, thumbVars, dbVersion, dbOp, msgVars, startup>>

\* REFRESH_PAGE_IMAGES: the debounced capturePageImages runs.
RefreshPageImages ==
  /\ page.started
  /\ page' = [capturePageImages(page) EXCEPT !.refreshed = TRUE]
  /\ UNCHANGED <<store, badge, exportVars, captureVars, thumbVars, dbVersion, dbOp, msgVars, startup>>

\* The page adds the elements of imgs to the document; once the script has
\* started its MutationObserver calls processNode for each.
ImagesAdded(imgs) ==
  /\ imgs # {} /\ imgs \cap page.dom = {}
  /\ LET p == [page EXCEPT !.dom = page.dom \cup imgs]
     IN page' = IF page.started THEN processAll(p, SortedSeq(imgs)) ELSE p
  /\ UNCHANGED <<store, badge, exportVars, captureVars, thumbVars, dbVersion, dbOp, msgVars, startup>>

\* The page removes an element from the document, or sets an img.src.
ImageRemoved(img) ==
  /\ img \in page.dom
  /\ page' = [page EXCEPT !.dom = page.dom \ {img}]
  /\ UNCHANGED <<store, badge, exportVars, captureVars, thumbVars, dbVersion, dbOp, msgVars, startup>>

SrcSet(img, src) ==
  /\ page.src[img] # src
  /\ page' = [page EXCEPT !.src[img] = src]
  /\ UNCHANGED <<store, badge, exportVars, captureVars, thumbVars, dbVersion, dbOp, msgVars, startup>>

\* The database is at the current version, and no store call or message
\* has been made.
Quiet ==
  /\ dbVersion = DB_VERSION
  /\ dbOp = NoDbOp
  /\ page = NoPage
  /\ startup = "none"
  /\ ops = [o \in OpIds |-> NoOp]
  /\ capMsg = [c \in CapIds |-> "none"]

\* An open that recreates the collection whatever the stored version.
initDB_AlwaysRecreate(version, s) ==
  [ok |-> version <= DB_VERSION, version |-> IF version <= DB_VERSION THEN DB_VERSION ELSE version,
   store |-> IF version <= DB_VERSION THEN <<>> ELSE s]

\* initDB: indexedDB.open(DB_NAME, DB_VERSION). A newer stored version is
\* an error; an older one fires onupgradeneeded, which deletes the object
\* store and creates it anew; the current one is opened as it is.
initDB(version, s) ==
  IF version > DB_VERSION
    THEN [ok |-> FALSE, version |-> version, store |-> s]
  ELSE IF version < DB_VERSION
    THEN [ok |-> TRUE, version |-> DB_VERSION, store |-> <<>>]
  ELSE [ok |-> TRUE, version |-> version, store |-> s]

\* A metadata mapping that keeps every field.
Metadata_Whole(img) == img

\* const { fullData, ...metadata } = img
Metadata(img) == [f \in DOMAIN img \ {"fullData"} |-> img[f]]

\* loadAllImagesMetadata: getAll, each record mapped to its metadata.
getAllMetadata(s) == LET all == getAll(s)
                     IN [k \in 1..Len(all) |-> Metadata(all[k])]

\* store.delete(url) and store.clear().
delete(s, url) == [u \in DOMAIN s \ {url} |-> s[u]]

clear(s) == <<>>

\* The records the store API is exercised with.
DbRecords ==
  { CapturedImage(u, t, Blob("image/png", 1, FALSE), "jpeg") :
      u \in Urls, t \in TabIds }

\* The collections made of them, one record per url at most.
DbStores ==
  UNION { { [u \in D |-> CapturedImage(u, tabs[u], Blob("image/png", 1, FALSE), "jpeg")] :
            tabs \in [D -> TabIds] } : D \in SUBSET Urls }

\* One call of the store API: the database is opened, then the request is
\* made in a transaction; the call resolves with its result, or rejects
\* (ok = FALSE) when the open or the request fails, the records as they
\* were after the open.
DbCall(op, arg, fails) ==
  LET o == initDB(dbVersion, store)
      done == o.ok /\ ~fails
      after == IF ~done THEN o.store
               ELSE CASE op = "put" -> put(o.store, arg[1])
                      [] op = "delete" -> delete(o.store, arg[1])
                      [] op = "clear" -> clear(o.store)
                      [] OTHER -> o.store
      result == IF ~done THEN <<>>
                ELSE CASE op = "getAll" -> getAll(o.store)
                       [] op = "getAllMetadata" -> getAllMetadata(o.store)
                       [] op = "count" -> <<count(o.store)>>
                       [] OTHER -> <<>>
  IN /\ dbVersion' = o.version
     /\ store' = after
     /\ dbOp' = [op |-> op, ok |-> done, arg |-> arg, result |-> result,
                 before |-> store, version |-> dbVersion]
     /\ UNCHANGED <<badge, exportVars, captureVars, thumbVars, msgVars, page, startup>>

DbOpen == DbCall("open", <<>>, FALSE)

DbPut(image, fails) == DbCall("put", <<image>>, fails)

DbDelete(url, fails) == DbCall("delete", <<url>>, fails)

DbClear(fails) == DbCall("clear", <<>>, fails)

DbRead(op, fails) == op \in {"getAll", "getAllMetadata", "count"} /\ DbCall(op, <<>>, fails)

\* ------------------------------------------- store: loadImageThumbnailData
MaxLazy == 2         \* loadImageThumbnailData calls per behaviour

LazyIds == 1..MaxLazy

\* A record's thumbnailData when the optional field is not there.
NoThumbnailData == "none"

\* req.result when no record has the key.
NoImage == CapturedImage(0, 0, NoBlob, NoThumbnailData)

\* A call of loadImageThumbnailData: where it is, the url it asks for, the
\* record it read (then updatedImage), what its promise settled with
\* ("none" while it has not), and whether it derived a thumbnail.
NoLazy == [pc |-> "none", url |-> 0, image |-> NoImage, result |-> "none",
           derived |-> FALSE]

\* loadImageThumbnailData(url), up to its await of initDB and store.get.
loadImageThumbnailData(t, url) ==
  /\ lazy[t].pc = "none"
  /\ \A q \in LazyIds : q < t => lazy[q].pc # "none"
  /\ lazy' = [lazy EXCEPT ![t].pc = "get", ![t].url = url]
  /\ UNCHANGED <<store, badge, exportVars, captureVars, dbVars, msgVars, thumb, scale>>

\* A read that derives a thumbnail whatever the record holds.
GetSucceeded_AlwaysDerives(t) ==
  /\ lazy[t].pc = "get"
  /\ LET image == IF lazy[t].url \in DOMAIN store THEN store[lazy[t].url]
                  ELSE NoImage
     IN lazy' = IF image.fullData # NoBlob
                  THEN [lazy EXCEPT ![t].pc = "gen", ![t].image = image,
                                    ![t].derived = TRUE]
                  ELSE [lazy EXCEPT ![t].pc = "unsettled"]
  /\ UNCHANGED <<store, badge, exportVars, captureVars, dbVars, msgVars, thumb, scale>>

\* req.onsuccess: a stored thumbnail resolves the promise; a record with
\* fullData and no thumbnail has one generated; otherwise (no record, or
\* one with neither field) neither resolve nor reject is ever called.
GetSucceeded(t) ==
  /\ lazy[t].pc = "get"
  /\ LET image == IF lazy[t].url \in DOMAIN store THEN store[lazy[t].url]
                  ELSE NoImage
     IN lazy' = IF image.thumbnailData # NoThumbnailData
                  THEN [lazy EXCEPT ![t].pc = "done",
                                    ![t].result = image.thumbnailData]
                ELSE IF image.fullData # NoBlob
                  THEN [lazy EXCEPT ![t].pc = "gen", ![t].image = image,
                                    ![t].derived = TRUE]
                ELSE [lazy EXCEPT ![t].pc = "unsettled"]
  /\ UNCHANGED <<store, badge, exportVars, captureVars, dbVars, msgVars, thumb, scale>>

\* initDB rejected, or req.onerror: the promise rejects.
GetFailed(t) ==
  /\ lazy[t].pc = "get"
  /\ lazy' = [lazy EXCEPT ![t].pc = "done", ![t].result = "rejected"]
  /\ UNCHANGED <<store, badge, exportVars, captureVars, dbVars, msgVars, thumb, scale>>

\* generateThumbnailFromBlob(image.fullData) settled: a thumbnail makes
\* updatedImage, which saveImage is asked to put; a rejection is logged and
\* the promise is left unsettled.
LazyThumbnailDone(t) ==
  /\ lazy[t].pc = "gen"
  /\ \E th \in ThumbnailOutcomes(lazy[t].image.fullData) :
       lazy' = IF th.status = "rejected"
                 THEN [lazy EXCEPT ![t].pc = "unsettled", ![t].image = NoImage]
                 ELSE [lazy EXCEPT ![t].pc = "save",
                                   ![t].image.thumbnailData = th.value]
  /\ UNCHANGED <<store, badge, exportVars, captureVars, dbVars, msgVars, thumb, scale>>

\* saveImage(updatedImage) resolved: the record read earlier, with the
\* thumbnail, is put; the promise resolves with the thumbnail.
WriteBackSaved(t) ==
  /\ lazy[t].pc = "save"
  /\ saveImage(lazy[t].image)
  /\ lazy' = [lazy EXCEPT ![t].pc = "done", ![t].image = NoImage,
                          ![t].result = lazy[t].image.thumbnailData]
  /\ UNCHANGED <<badge, exportVars, captureVars, dbVars, msgVars, thumb, scale>>

\* saveImage(updatedImage) rejected: logged, the promise still resolves
\* with the thumbnail.
WriteBackFailed(t) ==
  /\ lazy[t].pc = "save"
  /\ lazy' = [lazy EXCEPT ![t].pc = "done", ![t].image = NoImage,
                          ![t].result = lazy[t].image.thumbnailData]
  /\ UNCHANGED <<store, badge, exportVars, captureVars, dbVars, msgVars, thumb, scale>>

\* Other callers of the store while a request is under way: deleteImage,
\* clearAllImages and saveImage of a newly captured record resolve.
DeleteResolved(url) ==
  /\ url \in DOMAIN store
  /\ store' = delete(store, url)
  /\ UNCHANGED <<badge, exportVars, captureVars, thumbVars, dbVars, msgVars>>

ClearResolved ==
  /\ store # <<>>
  /\ store' = clear(store)
  /\ UNCHANGED <<badge, exportVars, captureVars, thumbVars, dbVars, msgVars>>

SaveResolved(image) ==
  /\ put(store, image) # store
  /\ saveImage(image)
  /\ UNCHANGED <<badge, exportVars, captureVars, thumbVars, dbVars, msgVars>>

\* ------------------------------------------------------ messages: handlers
\* The least message id not used yet.
FreshOp(o) == ops[o].kind = "none" /\ \A q \in OpIds : q < o => ops[q].kind # "none"

\* onMessage CLEAR_CAPTURED_IMAGES -> handleClearCapturedImages, up to its
\* await of clearAllImages.
handleClearCapturedImages(o) ==
  /\ FreshOp(o)
  /\ ops' = [ops EXCEPT ![o] = [NoOp EXCEPT !.kind = "clear", !.pc = "op"]]
  /\ UNCHANGED <<store, badge, exportVars, captureVars, thumbVars, dbVars, capMsg>>

\* onMessage DELETE_IMAGE -> handleDeleteImage, up to its await of
\* deleteImage(message.imageId).
handleDeleteImage(o, imageId) ==
  /\ FreshOp(o)
  /\ ops' = [ops EXCEPT ![o] = [NoOp EXCEPT !.kind = "delete", !.pc = "op",
                                           !.imageId = imageId]]
  /\ UNCHANGED <<store, badge, exportVars, captureVars, thumbVars, dbVars, capMsg>>

\* clearAllImages / deleteImage resolved: the records are gone; updateBadge
\* is awaited next.
StoreOpResolved(o) ==
  /\ ops[o].pc = "op"
  /\ store' = IF ops[o].kind = "clear" THEN clear(store)
              ELSE delete(store, ops[o].imageId)
  /\ ops' = [ops EXCEPT ![o].pc = "badge", ![o].applied = TRUE]
  /\ UNCHANGED <<badge, exportVars, captureVars, thumbVars, dbVars, capMsg>>

\* A handler whose catch sends no response.
StoreOpRejected_Silent(o) ==
  /\ ops[o].pc = "op"
  /\ ops' = [ops EXCEPT ![o].pc = "done"]
  /\ UNCHANGED <<store, badge, exportVars, captureVars, thumbVars, dbVars, capMsg>>

\* A handler that answers success from its catch.
StoreOpRejected_AnswersOk(o) ==
  /\ ops[o].pc = "op"
  /\ ops' = [ops EXCEPT ![o].pc = "done", ![o].resp = "ok"]
  /\ UNCHANGED <<store, badge, exportVars, captureVars, thumbVars, dbVars, capMsg>>

\* clearAllImages / deleteImage rejected: the catch answers success: false.
StoreOpRejected(o) ==
  /\ ops[o].pc = "op"
  /\ ops' = [ops EXCEPT ![o].pc = "done", ![o].resp = "fail"]
  /\ UNCHANGED <<store, badge, exportVars, captureVars, thumbVars, dbVars, capMsg>>

\* updateBadge settled (it catches its own failure and shows "!"); the
\* handler answers success: true.
OpBadgeUpdated(o) ==
  /\ ops[o].pc = "badge"
  /\ \E ok \in BOOLEAN :
       badge' = IF ok THEN CountBadge ELSE [kind |-> "!", val |-> 0]
  /\ ops' = [ops EXCEPT ![o].pc = "done", ![o].resp = "ok"]
  /\ UNCHANGED <<store, exportVars, captureVars, thumbVars, dbVars, capMsg>>

\* onMessage CHECK_AND_CAPTURE_IMAGE -> handleCheckAndCaptureImage: without
\* a url (0) it answers at once; with one it awaits fetchAndStoreImage.
handleCheckAndCaptureImage(c, url, tabId) ==
  /\ cap[c].pc = "none"
  /\ \A q \in CapIds : q < c => cap[q].pc # "none"
  /\ IF url = 0
       THEN /\ cap' = [cap EXCEPT ![c] = [NoCap EXCEPT !.pc = "done",
                                                       !.tabId = tabId,
                                                       !.outcome = "no_url"]]
            /\ capMsg' = [capMsg EXCEPT ![c] = "ok"]
       ELSE /\ cap' = [cap EXCEPT ![c] = [NoCap EXCEPT !.pc = "check",
                                                       !.url = url,
                                                       !.tabId = tabId]]
            /\ capMsg' = [capMsg EXCEPT ![c] = "pending"]
  /\ UNCHANGED <<store, badge, notified, exportVars, thumbVars, dbVars, ops>>

\* A handler that answers only when no capture at all is in flight.
CaptureAnswered_AfterAll(c) ==
  /\ capMsg[c] = "pending"
  /\ \A q \in CapIds : cap[q].pc \in {"none", "done"}
  /\ capMsg' = [capMsg EXCEPT ![c] = "ok"]
  /\ UNCHANGED <<store, badge, exportVars, captureVars, thumbVars, dbVars, ops>>

\* fetchAndStoreImage settled (it never rejects): the handler answers
\* IMAGE_CHECKED with success: true.
CaptureAnswered(c) ==
  /\ capMsg[c] = "pending"
  /\ cap[c].pc = "done"
  /\ capMsg' = [capMsg EXCEPT ![c] = "ok"]
  /\ UNCHANGED <<store, badge, exportVars, captureVars, thumbVars, dbVars, ops>>

\* ------------------------------------------------------ export: the system
\* The stores an export may find: records 1..n as the capture pipeline
\* writes them, of any content types.
BuildStores ==
  UNION { { [u \in 1..n |-> CapturedImage(u, 7, Blob(types[u], 1, FALSE), "jpeg")] :
            types \in [1..n -> ContentTypes] } : n \in 0..MaxImages }

\* The same stores with every record a PNG: the content types only decide
\* the entry names, which SpecBuild covers.
ExportStores ==
  { s \in BuildStores : \A u \in DOMAIN s : s[u].fullData.type = "image/png" }

Init ==
  /\ store \in ExportStores
  /\ badge = CountBadge
  /\ MAX_IMAGES_PER_ZIP \in 1..MaxCeiling
  /\ isZipOperationRunning = FALSE
  /\ req = [r \in ReqIds |-> NoReq]
  /\ run = [r \in ReqIds |-> IdleRun]
  /\ downloads = <<>>
  /\ timers = 0
  /\ cap = [c \in CapIds |-> NoCap]
  /\ notified = <<>>
  /\ lazy = [t \in LazyIds |-> NoLazy]
  /\ scale = NoScale
  /\ thumb = NoThumb
  /\ Quiet

Next ==
  \/ \E r \in ReqIds : handleZipAndDownloadAllImages(r)
  \/ \E r \in ReqIds : onClickedDownloadAllAsZip(r)
  \/ \E r \in ReqIds : LoadResolved(r)
  \/ \E r \in ReqIds : LoadRejected(r)
  \/ \E r \in ReqIds : ArrayBufferResolved(r)
  \/ \E r \in ReqIds : ArrayBufferRejected(r)
  \/ \E r \in ReqIds : \E percent \in ZipPercents : GenerateUpdate(r, percent)
  \/ \E r \in ReqIds : GenerateResolved(r)
  \/ \E r \in ReqIds : GenerateRejected(r)
  \/ \E r \in ReqIds : BadgeUpdated(r)
  \/ \E r \in ReqIds : DataUrlResolved(r)
  \/ \E r \in ReqIds : DataUrlRejected(r)
  \/ \E r \in ReqIds : DownloadStarted(r)
  \/ \E r \in ReqIds : DownloadNotStarted(r)
  \/ \E r \in ReqIds : DownloadCompleted(r)
  \/ \E r \in ReqIds : DownloadInterrupted(r)
  \/ BadgeRestoreTimer

Spec == Init /\ [][Next]_vars

\* The export system with every armed setTimeout callback run in the end.
FairExport == Spec /\ WF_vars(BadgeRestoreTimer)

\* The build phase of one export from a store of any content types.
InitBuild ==
  /\ store \in BuildStores
  /\ badge = CountBadge
  /\ MAX_IMAGES_PER_ZIP \in 1..MaxCeiling
  /\ isZipOperationRunning = FALSE
  /\ req = [r \in ReqIds |-> NoReq]
  /\ run = [r \in ReqIds |-> IdleRun]
  /\ downloads = <<>>
  /\ timers = 0
  /\ cap = [c \in CapIds |-> NoCap]
  /\ notified = <<>>
  /\ lazy = [t \in LazyIds |-> NoLazy]
  /\ scale = NoScale
  /\ thumb = NoThumb
  /\ Quiet

NextBuild ==
  \/ handleZipAndDownloadAllImages(1)
  \/ LoadResolved(1)
  \/ ArrayBufferResolved(1)
  \/ GenerateResolved(1)

SpecBuild == InitBuild /\ [][NextBuild]_vars

\* ----------------------------------------------------- thumbnail: the system
InitThumb ==
  /\ store = <<>>
  /\ badge = CountBadge
  /\ MAX_IMAGES_PER_ZIP = 1
  /\ isZipOperationRunning = FALSE
  /\ req = [r \in ReqIds |-> NoReq]
  /\ run = [r \in ReqIds |-> IdleRun]
  /\ downloads = <<>>
  /\ timers = 0
  /\ cap = [c \in CapIds |-> NoCap]
  /\ notified = <<>>
  /\ lazy = [t \in LazyIds |-> NoLazy]
  /\ scale = NoScale
  /\ \E blob \in ThumbBlobs, env \in ThumbEnvs :
       thumb = [blob |-> blob, env |-> env, result |-> Pending]
  /\ Quiet

NextThumb == ThumbnailSettled

SpecThumb == InitThumb /\ [][NextThumb]_vars

\* ------------------------------------------------------ store: the system
InitDB ==
  /\ dbVersion \in DbVersions
  /\ store \in IF dbVersion = 0 THEN {<<>>} ELSE DbStores
  /\ dbOp = NoDbOp
  /\ page = NoPage
  /\ startup = "none"
  /\ ops = [o \in OpIds |-> NoOp]
  /\ capMsg = [c \in CapIds |-> "none"]
  /\ badge = CountBadge
  /\ MAX_IMAGES_PER_ZIP = 1
  /\ isZipOperationRunning = FALSE
  /\ req = [r \in ReqIds |-> NoReq]
  /\ run = [r \in ReqIds |-> IdleRun]
  /\ downloads = <<>>
  /\ timers = 0
  /\ cap = [c \in CapIds |-> NoCap]
  /\ notified = <<>>
  /\ lazy = [t \in LazyIds |-> NoLazy]
  /\ scale = NoScale
  /\ thumb = NoThumb

NextDB ==
  \/ DbOpen
  \/ \E image \in DbRecords, fails \in BOOLEAN : DbPut(image, fails)
  \/ \E url \in Urls, fails \in BOOLEAN : DbDelete(url, fails)
  \/ \E fails \in BOOLEAN : DbClear(fails)
  \/ \E op \in {"getAll", "getAllMetadata", "count"}, fails \in BOOLEAN : DbRead(op, fails)

SpecDB == InitDB /\ [][NextDB]_vars

\* ---------------------------------------------------- messages: the system
\* The stores the messages may find.
MessageStores == { s \in ExportStores : Len(s) <= MaxUrls }

InitMessages ==
  /\ store \in MessageStores
  /\ badge = CountBadge
  /\ MAX_IMAGES_PER_ZIP = MaxCeiling
  /\ isZipOperationRunning = FALSE
  /\ req = [r \in ReqIds |-> NoReq]
  /\ run = [r \in ReqIds |-> IdleRun]
  /\ downloads = <<>>
  /\ timers = 0
  /\ cap = [c \in CapIds |-> NoCap]
  /\ notified = <<>>
  /\ lazy = [t \in LazyIds |-> NoLazy]
  /\ scale = NoScale
  /\ thumb = NoThumb
  /\ Quiet

\* A message arrives; capture messages take their ids from C.
Receive(C) ==
  \/ \E o \in OpIds : handleClearCapturedImages(o)
  \/ \E o \in OpIds, imageId \in Urls : handleDeleteImage(o, imageId)
  \/ \E c \in C, url \in Urls \cup {0} : handleCheckAndCaptureImage(c, url, 7)
  \/ handleZipAndDownloadAllImages(1)

\* The existence check of capture c settles.
CheckSettles(c) ==
  \/ ExistenceChecked(c)
  \/ ExistenceCheckFailed(c)

\* The fetch of capture c settles.
FetchSettles(c) ==
  \/ \E blob \in FetchBlobs : Fetched(c, blob)
  \/ FetchFailed(c)

\* The steps of capture c after its fetch.
CaptureAfterFetch(c) ==
  \/ ThumbnailDone(c)
  \/ Saved(c)
  \/ SaveFailed(c)
  \/ BadgeThenNotify(c)
  \/ CaptureAnswered(c)

\* A clear-all or delete-one handler goes on.
StoreOpContinues(o) ==
  \/ StoreOpResolved(o)
  \/ StoreOpRejected(o)
  \/ OpBadgeUpdated(o)

\* An export run goes on: a promise it awaits settles.
ExportContinues(r) ==
  \/ LoadResolved(r)
  \/ LoadRejected(r)
  \/ ArrayBufferResolved(r)
  \/ ArrayBufferRejected(r)
  \/ \E percent \in ZipPercents : GenerateUpdate(r, percent)
  \/ GenerateResolved(r)
  \/ GenerateRejected(r)
  \/ BadgeUpdated(r)
  \/ DataUrlResolved(r)
  \/ DataUrlRejected(r)
  \/ DownloadStarted(r)
  \/ DownloadNotStarted(r)
  \/ DownloadCompleted(r)
  \/ DownloadInterrupted(r)

\* Every promise a handler awaits settles: the handlers go on.
Settles ==
  \/ CheckSettles(1)
  \/ FetchSettles(1)
  \/ CaptureAfterFetch(1)
  \/ \E o \in OpIds : StoreOpContinues(o)
  \/ ExportContinues(1)

\* One capture message, the clear-all / delete-one messages and one
\* start-export message, handled concurrently.
NextMessages ==
  \/ Receive({1})
  \/ Settles

SpecMessages == InitMessages /\ [][NextMessages]_vars

\* The event loop runs a handler on when the promise it awaits has
\* settled, and every store request, fetch, archive step and delivery
\* settles in the end.
FairMessages == SpecMessages /\ WF_vars(Settles)

\* The same with the fetch of capture 1 never completing: every promise but
\* that one settles.
SettlesButFetch ==
  \/ \E c \in CapIds : CheckSettles(c)
  \/ \E c \in CapIds \ {1} : FetchSettles(c)
  \/ \E c \in CapIds : CaptureAfterFetch(c)
  \/ \E o \in OpIds : StoreOpContinues(o)
  \/ ExportContinues(1)

NextHungFetch ==
  \/ Receive(CapIds)
  \/ SettlesButFetch

\* The messages arrive at a worker whose store is still empty.
InitHungFetch == InitMessages /\ store = <<>>

SpecHungFetch == InitHungFetch /\ [][NextHungFetch]_vars /\ WF_vars(SettlesButFetch)

\* The export system with a delivery sink that reports whenever it is
\* done, be it before the download callback has run.
NextDelivery ==
  \/ Next
  \/ \E r \in ReqIds, state \in {"complete", "interrupted"} :
       DownloadSettledEarly(r, state)

SpecDelivery == Init /\ [][NextDelivery]_vars

\* Every promise an export run awaits settles, the download callback runs,
\* and every delivery in progress reports complete or interrupted.
FairDelivery ==
  SpecDelivery /\ \A r \in ReqIds : WF_vars(ExportContinues(r))

\* ------------------------------------------------------- capture: the system
InitCapture ==
  /\ store = <<>>
  /\ badge = CountBadge
  /\ MAX_IMAGES_PER_ZIP = 1
  /\ isZipOperationRunning = FALSE
  /\ req = [r \in ReqIds |-> NoReq]
  /\ run = [r \in ReqIds |-> IdleRun]
  /\ downloads = <<>>
  /\ timers = 0
  /\ cap = [c \in CapIds |-> NoCap]
  /\ notified = <<>>
  /\ lazy = [t \in LazyIds |-> NoLazy]
  /\ scale = NoScale
  /\ thumb = NoThumb
  /\ Quiet

NextCapture ==
  \/ \E c \in CapIds, url \in Urls, tabId \in TabIds : fetchAndStoreImage(c, url, tabId)
  \/ \E c \in CapIds : ExistenceChecked(c)
  \/ \E c \in CapIds : ExistenceCheckFailed(c)
  \/ \E c \in CapIds, blob \in FetchBlobs : Fetched(c, blob)
  \/ \E c \in CapIds : FetchFailed(c)
  \/ \E c \in CapIds : ThumbnailDone(c)
  \/ \E c \in CapIds : Saved(c)
  \/ \E c \in CapIds : SaveFailed(c)
  \/ \E c \in CapIds : BadgeThenNotify(c)

SpecCapture == InitCapture /\ [][NextCapture]_vars

\* ------------------------------------------------------- browser startup
\* runtime.onStartup fires: the handler calls clearAllImages and awaits it.
BrowserStarted ==
  /\ startup = "none"
  /\ startup' = "clear"
  /\ UNCHANGED <<store, badge, exportVars, captureVars, thumbVars, dbVersion, dbOp, page, msgVars>>

\* clearAllImages resolved; updateBadge is awaited next.
StartupCleared ==
  /\ startup = "clear"
  /\ store' = clear(store)
  /\ startup' = "badge"
  /\ UNCHANGED <<badge, exportVars, captureVars, thumbVars, dbVersion, dbOp, page, msgVars>>

\* clearAllImages rejected: caught and logged, updateBadge is not called.
StartupClearFailed ==
  /\ startup = "clear"
  /\ startup' = "failed"
  /\ UNCHANGED <<store, badge, exportVars, captureVars, thumbVars, dbVersion, dbOp, page, msgVars>>

\* updateBadge settled (the count, or "!" when it could not be read); the
\* handler returns.
StartupBadgeUpdated ==
  /\ startup = "badge"
  /\ \E ok \in BOOLEAN :
       badge' = IF ok THEN CountBadge ELSE [kind |-> "!", val |-> 0]
  /\ startup' = "done"
  /\ UNCHANGED <<store, exportVars, captureVars, thumbVars, dbVersion, dbOp, page, msgVars>>

\* The browser starts with the records of the previous session in the
\* store; the startup handler runs while pages load and captures arrive.
InitStartup ==
  /\ store \in DbStores
  /\ badge \in {CountBadge, [kind |-> "empty", val |-> 0]}
  /\ MAX_IMAGES_PER_ZIP = 1
  /\ isZipOperationRunning = FALSE
  /\ req = [r \in ReqIds |-> NoReq]
  /\ run = [r \in ReqIds |-> IdleRun]
  /\ downloads = <<>>
  /\ timers = 0
  /\ cap = [c \in CapIds |-> NoCap]
  /\ notified = <<>>
  /\ lazy = [t \in LazyIds |-> NoLazy]
  /\ scale = NoScale
  /\ thumb = NoThumb
  /\ Quiet

NextStartup ==
  \/ BrowserStarted
  \/ StartupCleared
  \/ StartupClearFailed
  \/ StartupBadgeUpdated
  \/ NextCapture

SpecStartup == InitStartup /\ [][NextStartup]_vars

\* One page context: the page changes its images at will while the content
\* script scans, observes and is asked to refresh.
InitPage ==
  /\ store = <<>>
  /\ badge = CountBadge
  /\ MAX_IMAGES_PER_ZIP = 1
  /\ isZipOperationRunning = FALSE
  /\ req = [r \in ReqIds |-> NoReq]
  /\ run = [r \in ReqIds |-> IdleRun]
  /\ downloads = <<>>
  /\ timers = 0
  /\ cap = [c \in CapIds |-> NoCap]
  /\ notified = <<>>
  /\ lazy = [t \in LazyIds |-> NoLazy]
  /\ scale = NoScale
  /\ thumb = NoThumb
  /\ dbVersion = DB_VERSION
  /\ dbOp = NoDbOp
  /\ ops = [o \in OpIds |-> NoOp]
  /\ capMsg = [c \in CapIds |-> "none"]
  /\ startup = "none"
  /\ \E dom \in SUBSET Elems, src \in [Elems -> Srcs] :
       page = [NoPage EXCEPT !.dom = dom, !.src = src]

NextPage ==
  \/ ContentScriptStarted
  \/ RefreshPageImages
  \/ \E imgs \in SUBSET Elems : ImagesAdded(imgs)
  \/ \E img \in Elems : ImageRemoved(img)
  \/ \E img \in Elems, src \in Srcs : SrcSet(img, src)

SpecPage == InitPage /\ [][NextPage]_vars

\* The size computation for every bitmap and box within the bounds.
InitScale ==
  /\ store = <<>>
  /\ badge = CountBadge
  /\ MAX_IMAGES_PER_ZIP = 1
  /\ isZipOperationRunning = FALSE
  /\ req = [r \in ReqIds |-> NoReq]
  /\ run = [r \in ReqIds |-> IdleRun]
  /\ downloads = <<>>
  /\ timers = 0
  /\ cap = [c \in CapIds |-> NoCap]
  /\ notified = <<>>
  /\ lazy = [t \in LazyIds |-> NoLazy]
  /\ thumb = NoThumb
  /\ \E width, height \in 1..MaxSide, maxWidth, maxHeight \in 1..MaxBox :
       scale = [NoScale EXCEPT !.width = width, !.height = height,
                               !.maxWidth = maxWidth, !.maxHeight = maxHeight]
  /\ Quiet

NextScale == ThumbnailSized

SpecScale == InitScale /\ [][NextScale]_vars

\* Thumbnail requests against a store that other callers delete from, clear
\* and save into. The records there at the start come from tab 7 and may
\* lack either optional field; the ones saved meanwhile come from tab 8.
LazyRecords ==
  { CapturedImage(u, 7, b, th) :
      u \in Urls, b \in {Blob("image/png", 1, FALSE), NoBlob},
      th \in {"jpeg", NoThumbnailData} }

LazyStores ==
  UNION { { s \in [D -> LazyRecords] : \A u \in D : s[u].url = u } :
          D \in SUBSET Urls }

NewRecords == { CapturedImage(u, 8, Blob("image/png", 1, FALSE), "jpeg") : u \in Urls }

InitLazy ==
  /\ store \in LazyStores
  /\ badge = CountBadge
  /\ MAX_IMAGES_PER_ZIP = 1
  /\ isZipOperationRunning = FALSE
  /\ req = [r \in ReqIds |-> NoReq]
  /\ run = [r \in ReqIds |-> IdleRun]
  /\ downloads = <<>>
  /\ timers = 0
  /\ cap = [c \in CapIds |-> NoCap]
  /\ notified = <<>>
  /\ lazy = [t \in LazyIds |-> NoLazy]
  /\ scale = NoScale
  /\ thumb = NoThumb
  /\ Quiet

\* A thumbnail request goes on: a promise it awaits settles.
LazyContinues(t) ==
  \/ GetSucceeded(t)
  \/ GetFailed(t)
  \/ LazyThumbnailDone(t)
  \/ WriteBackSaved(t)
  \/ WriteBackFailed(t)

NextLazy ==
  \/ \E t \in LazyIds, url \in Urls : loadImageThumbnailData(t, url)
  \/ \E t \in LazyIds : LazyContinues(t)
  \/ \E url \in Urls : DeleteResolved(url)
  \/ ClearResolved
  \/ \E image \in NewRecords : SaveResolved(image)

SpecLazy == InitLazy /\ [][NextLazy]_vars

\* Every store request and thumbnail generation a request awaits settles.
FairLazy == SpecLazy /\ \A t \in LazyIds : WF_vars(LazyContinues(t))


\* ------------------------------------------------------------------ claims
ActiveRuns == {r \in ReqIds : Active(r)}

\* The entries of `downloads` that belong to request r, in order.
DownloadsOf(r) == SelectSeq(downloads, LAMBDA e : e.run = r)

\* C1: while an export run is in progress, however it was started, a
\* start-export message is answered at once with "already in progress",
\* its request never becomes a run, and no run state changes.
C1_RejectedWhileRunning ==
  /\ [](\A r \in ReqIds : req[r].resp = "already" => ~Active(r))
  /\ [][\A r \in ReqIds :
          (ActiveRuns # {} /\ req[r].kind = "none" /\ req'[r].kind = "msg")
            => (req'[r].resp = "already" /\ run' = run)]_vars

\* C1 witness: a message was rejected while a run started from the context
\* menu is in progress.
C1_Witness ==
  \E r, q \in ReqIds :
    req[r].resp = "already" /\ req[q].kind = "menu" /\ Active(q)

\* C2: the flag is set exactly while a run is active, at most one run is
\* active, and a start-export message arriving with no run active (after
\* whatever ended the last one) is accepted.
C2_FlagTracksRun ==
  /\ [](/\ isZipOperationRunning <=> ActiveRuns # {}
        /\ Cardinality(ActiveRuns) <= 1)
  /\ [][\A r \in ReqIds :
          (ActiveRuns = {} /\ req[r].kind = "none" /\ req'[r].kind = "msg")
            => (req'[r].resp = "none" /\ run'[r].pc = "load")]_vars

\* C2 witness: a run that ended by a failure is followed by an accepted one.
C2_Witness ==
  \E r, q \in ReqIds :
    /\ req[r].outcome \in {"load_fail", "read_fail", "zip_fail", "dl_fail"}
    /\ req[q].kind = "msg" /\ Active(q)

\* The entries of an archive (the archiver keys its entries by name).
EntryCount(zip) == Cardinality({zip[k].name : k \in 1..Len(zip)})

CeilDiv(a, b) == (a + b - 1) \div b

\* The pcs of a run whose build has produced all its archives.
Built == {"badge", "dataurl", "dl_call", "dl_wait"}

\* C5: once the build of N records with ceiling C is through, there are
\* ceil(N/C) archives, each of at most C entries, with N entries in all.
C5_ChunkPartition ==
  \A r \in ReqIds :
    run[r].pc \in Built =>
      LET blobs == run[r].zipBlobs
          N == Len(run[r].images)
      IN /\ Len(blobs) = CeilDiv(N, MAX_IMAGES_PER_ZIP)
         /\ \A k \in 1..Len(blobs) : EntryCount(blobs[k]) <= MAX_IMAGES_PER_ZIP
         /\ SumSeq([k \in 1..Len(blobs) |-> EntryCount(blobs[k])]) = N

\* C5 witness: three records with ceiling two are built into two archives.
C5_Witness ==
  \E r \in ReqIds :
    /\ run[r].pc \in Built
    /\ Len(run[r].images) = 3 /\ MAX_IMAGES_PER_ZIP = 2
    /\ Len(run[r].zipBlobs) = 2

NoDuplicateNames(zip) ==
  \A a, b \in 1..Len(zip) : a # b => zip[a].name # zip[b].name

\* C6: the names given to the records of one archive are pairwise distinct.
C6_UniqueNames ==
  \A r \in ReqIds :
    /\ NoDuplicateNames(run[r].zip)
    /\ \A k \in 1..Len(run[r].zipBlobs) : NoDuplicateNames(run[r].zipBlobs[k])

\* C6 witness: an archive holds two records that got the same extension.
C6_Witness ==
  \E r \in ReqIds : \E k \in 1..Len(run[r].zipBlobs) :
    LET zip == run[r].zipBlobs[k]
    IN \E a, b \in 1..Len(zip) :
         a # b /\ zip[a].name[Len(zip[a].name)] = zip[b].name[Len(zip[b].name)]

\* C7 as claimed: no report of a run is lower than the report before it.
C7_ProgressMonotone ==
  \A r \in ReqIds : run[r].pct >= run[r].prevPct

\* C8: after a serialization failure the run is over with only the earlier
\* chunks serialized, nothing was handed to the delivery sink, and the only
\* event emitted is the export error.
C8_SerializationFailureAborts ==
  \A r \in ReqIds :
    req[r].outcome = "zip_fail" =>
      /\ ~Active(r)
      /\ req[r].built < req[r].chunks
      /\ DownloadsOf(r) = <<>>
      /\ req[r].events = <<"ZIP_DOWNLOAD_ERROR">>

\* C8 witness: the first of two chunks failed to serialize.
C8_Witness ==
  \E r \in ReqIds :
    req[r].outcome = "zip_fail" /\ req[r].built = 0 /\ req[r].chunks = 2

InFlight == {k \in 1..Len(downloads) : downloads[k].state \in {"starting", "in_progress"}}

\* C9: nothing is handed to the delivery sink before every archive of the
\* run exists; the archives are handed over in chunk order, each only when
\* the one before it has completed; at most one delivery is in flight.
C9_SequentialDelivery ==
  /\ Cardinality(InFlight) <= 1
  /\ \A r \in ReqIds :
       LET ds == DownloadsOf(r)
       IN /\ run[r].pc \in {"load", "img", "zip", "badge"} => ds = <<>>
          /\ (Active(r) /\ ds # <<>>) =>
               Len(run[r].zipBlobs) = Len(Chunks(run[r]))
          /\ \A k \in 1..Len(ds) :
               /\ ds[k].part = k - 1
               /\ k < Len(ds) => ds[k].state = "complete"

\* C9 witness: the second archive is being delivered after the first one
\* completed.
C9_Witness ==
  \E r \in ReqIds :
    LET ds == DownloadsOf(r)
    IN Len(ds) = 2 /\ ds[1].state = "complete" /\ ds[2].state = "in_progress"

CallsFor(u) == {c \in CapIds : cap[c].pc # "none" /\ cap[c].url = u}

\* C3 as claimed: once every capture call for a url has settled, with every
\* fetch having returned an image and no store operation having failed, the
\* store holds the record of that url.
C3_ExactlyOneRecord ==
  \A u \in Urls :
    (/\ CallsFor(u) # {}
     /\ \A c \in CallsFor(u) :
          /\ cap[c].pc = "done"
          /\ cap[c].outcome \notin {"fetch_error", "skipped", "store_error"})
      => u \in DOMAIN store

\* C4 as claimed: a settled generateThumbnailFromBlob call has not rejected.
C4_NeverRejects == thumb.result.status # "rejected"

\* The requests whose run is over.
Ended(r) == req[r].kind # "none" /\ ~Active(r)
                /\ req[r].outcome \notin {"none", "rejected", "ignored"}

\* C11: an export that read an empty store is over with no archive built,
\* nothing handed to the delivery sink and no error event, and a
\* start-export request was answered with success.
C11_EmptyExport ==
  \A r \in ReqIds :
    (Ended(r) /\ store = <<>> /\ req[r].outcome # "load_fail") =>
      /\ req[r].outcome = "empty"
      /\ req[r].built = 0 /\ req[r].chunks = 0
      /\ DownloadsOf(r) = <<>>
      /\ \A k \in 1..Len(req[r].events) : req[r].events[k] # "ZIP_DOWNLOAD_ERROR"
      /\ req[r].kind = "msg" => req[r].resp = "ok"

\* C11 witness: a start-export message found the store empty and was
\* answered.
C11_Witness ==
  \E r \in ReqIds :
    store = <<>> /\ req[r].kind = "msg" /\ req[r].outcome = "empty"

\* The name the n-th of k archives is to be delivered under.
ArchiveName(n, k) ==
  IF k = 1
    THEN <<"captured-images-", "DATE", ".zip">>
    ELSE <<"captured-images-", "DATE", "-part-", DigitChar(n), ".zip">>

\* C12: the n-th archive a run of k archives hands to the delivery sink is
\* named captured-images-{date}.zip when k = 1 and
\* captured-images-{date}-part-{n}.zip when k > 1; a delivered export of
\* C+1 records with ceiling C is the two archives part-1 and part-2.
C12_ArchiveNames ==
  \A r \in ReqIds :
    LET ds == DownloadsOf(r)
        k == IF Active(r) THEN Len(run[r].zipBlobs) ELSE req[r].built
    IN /\ \A n \in 1..Len(ds) : ds[n].name = ArchiveName(n, k)
       /\ (req[r].outcome = "ok" /\ Len(store) = MAX_IMAGES_PER_ZIP + 1) =>
            [n \in 1..Len(ds) |-> ds[n].name]
              = << <<"captured-images-", "DATE", "-part-", "1", ".zip">>,
                   <<"captured-images-", "DATE", "-part-", "2", ".zip">> >>

\* C12 witness: three records with ceiling two were delivered as two
\* archives.
C12_Witness ==
  \E r \in ReqIds :
    /\ req[r].outcome = "ok" /\ Len(store) = 3 /\ MAX_IMAGES_PER_ZIP = 2
    /\ Len(DownloadsOf(r)) = 2

\* C13 as claimed: a run that is over emitted exactly one event, the
\* completion when it succeeded and the error when it failed.
C13_ExactlyOneEvent ==
  \A r \in ReqIds :
    Ended(r) =>
      req[r].events = IF req[r].outcome \in {"ok", "empty"}
                        THEN <<"ZIP_DOWNLOAD_COMPLETE">>
                        ELSE <<"ZIP_DOWNLOAD_ERROR">>

\* The collection a call found once the database was open at the current
\* version.
AtCurrent == dbOp.op # "none" /\ dbOp.version = DB_VERSION

\* C18: a put on an open store leaves the record it was given under its
\* url, every other record as it was, and one record more only when the
\* url was new; the same put again changes nothing.
C18_UpsertIdempotent ==
  (AtCurrent /\ dbOp.op = "put" /\ dbOp.ok) =>
    LET image == dbOp.arg[1]
        b == dbOp.before
    IN /\ DOMAIN store = DOMAIN b \cup {image.url}
       /\ store[image.url] = image
       /\ \A u \in DOMAIN b : u # image.url => store[u] = b[u]
       /\ count(store) = count(b) + (IF image.url \in DOMAIN b THEN 0 ELSE 1)
       /\ put(store, image) = store
       /\ count(put(store, image)) = count(store)

\* C18 witness: a put replaced another record stored under the same url.
C18_Witness ==
  /\ AtCurrent /\ dbOp.op = "put" /\ dbOp.ok
  /\ dbOp.arg[1].url \in DOMAIN dbOp.before
  /\ dbOp.before[dbOp.arg[1].url] # dbOp.arg[1]
  /\ count(dbOp.before) = 2

\* C19: the metadata listing is the full listing, record for record in the
\* same order, without the fullData field and with every other field
\* equal; the count is the length of both.
C19_MetadataMatchesGetAll ==
  LET all == getAll(store)
      meta == getAllMetadata(store)
  IN /\ Len(meta) = Len(all)
     /\ count(store) = Len(all)
     /\ \A k \in 1..Len(all) :
          /\ DOMAIN meta[k] = DOMAIN all[k] \ {"fullData"}
          /\ \A f \in DOMAIN meta[k] : meta[k][f] = all[k][f]
     /\ (dbOp.op = "getAllMetadata" /\ dbOp.ok) => dbOp.result = meta
     /\ (dbOp.op = "getAll" /\ dbOp.ok) => dbOp.result = all
     /\ (dbOp.op = "count" /\ dbOp.ok) => dbOp.result = <<Len(all)>>

\* C19 witness: the metadata of a store of two records was listed.
C19_Witness ==
  dbOp.op = "getAllMetadata" /\ dbOp.ok /\ Len(dbOp.result) = 2

\* C20: an open of a database stored at an older version leaves the
\* collection empty; at the current version an open changes no record, and
\* a call (which opens first) changes no record but the one it names.
C20_OpenRecreatesOrKeeps ==
  /\ (dbOp.op = "open" /\ dbOp.version < DB_VERSION) =>
       dbOp.ok /\ store = <<>> /\ dbVersion = DB_VERSION
  /\ (dbOp.op = "open" /\ dbOp.version = DB_VERSION) =>
       dbOp.ok /\ store = dbOp.before
  /\ (AtCurrent /\ dbOp.op \in {"getAll", "getAllMetadata", "count"}) =>
       store = dbOp.before
  /\ (AtCurrent /\ dbOp.op \in {"put", "delete"}) =>
       \A u \in DOMAIN dbOp.before :
         u # (IF dbOp.op = "put" THEN dbOp.arg[1].url ELSE dbOp.arg[1]) =>
           u \in DOMAIN store /\ store[u] = dbOp.before[u]

\* C20 witness: a database of two records stored at an older version was
\* opened.
C20_Witness ==
  /\ dbOp.op = "open" /\ dbOp.version = DB_VERSION - 1
  /\ count(dbOp.before) = 2 /\ store = <<>>

C15_AnswerMatchesStoreOp ==
  /\ [](\A o \in OpIds :
          /\ ops[o].resp = "ok" => ops[o].applied
          /\ ops[o].resp = "fail" => ~ops[o].applied
          /\ ops[o].pc = "done" => ops[o].resp \in {"ok", "fail"})
  /\ [][\A o \in OpIds :
          /\ (ops[o].resp = "none" /\ ops'[o].resp = "fail") => store' = store
          /\ (~ops[o].applied /\ ops'[o].applied) =>
               store' = IF ops[o].kind = "clear" THEN <<>>
                        ELSE [u \in DOMAIN store \ {ops[o].imageId} |-> store[u]]]_vars

\* C15 witness: a delete-one failed on a store of two records, which are
\* still there.
C15_Witness ==
  \E o \in OpIds :
    ops[o].kind = "delete" /\ ops[o].resp = "fail" /\ count(store) = 2

C16_FailedFetchAbandons ==
  /\ [](\A c \in CapIds :
          /\ cap[c].outcome \in {"fetch_error", "skipped"} => cap[c].pc = "done"
          /\ cap[c].pc \in {"thumb", "put", "badge"} => cap[c].blob.type # "text/html")
  /\ [][\A c \in CapIds :
          /\ (cap[c].pc = "fetch" /\ cap'[c] # cap[c]) =>
               \/ cap'[c].pc = "thumb"
               \/ cap'[c].pc = "done" /\ cap'[c].outcome \in {"fetch_error", "skipped"}
          /\ (cap[c].pc \in {"none", "check", "fetch"} /\ cap'[c] # cap[c]) =>
               store' = store /\ badge' = badge /\ notified' = notified
          /\ cap[c].pc = "done" => cap'[c] = cap[c]]_vars

\* C16 witness: one capture ended on a failed fetch and one on a payload
\* that is not an image, and nothing was stored or notified.
C16_Witness ==
  \E c, d \in CapIds :
    /\ cap[c].outcome = "fetch_error" /\ cap[d].outcome = "skipped"
    /\ store = <<>> /\ notified = <<>> /\ badge.kind = "empty"

\* The runs that are over, and the one that ended last (runs never overlap
\* and take their ids in order).
EndedRuns == {r \in ReqIds : Ended(r)}

LastEnded == CHOOSE r \in EndedRuns : \A q \in EndedRuns : q <= r

Thumbnails == {"jpeg", "rawsvg", "placeholder"}

\* C22: whenever saveImage resolves in a capture, the record then stored
\* under the capture's url carries the url and tabId of the call, the
\* fetched blob as fullData, a fileSize equal to that blob's byte length,
\* and a thumbnail.
C22_WrittenRecordFields ==
  [][\A c \in CapIds :
       (cap[c].pc = "put" /\ cap'[c].pc = "badge") =>
         /\ cap[c].url \in DOMAIN store'
         /\ LET rec == store'[cap[c].url]
            IN /\ rec.url = cap[c].url
               /\ rec.tabId = cap[c].tabId
               /\ rec.fullData = cap[c].blob
               /\ rec.fullData # NoBlob
               /\ rec.fileSize = rec.fullData.size
               /\ rec.thumbnailData \in Thumbnails]_vars

\* C22 witness: a capture from tab 8 has just written a one-byte PNG with
\* its JPEG thumbnail.
C22_Witness ==
  \E c \in CapIds :
    /\ cap[c].pc = "badge" /\ cap[c].tabId = 8
    /\ cap[c].url \in DOMAIN store
    /\ store[cap[c].url].fileSize = 1
    /\ store[cap[c].url].thumbnailData = "jpeg"

\* The notifications sent for url so far.
NotifiedFor(url) == {k \in DOMAIN notified : notified[k].url = url}

\* C23 as claimed: in a capture that writes a record, the write completes
\* before the image-captured notification is sent, and the notification is
\* sent before the badge is updated: the step that sends the notification
\* starts with the record in the store, and the step in which updateBadge
\* settles starts with the notification sent.
C23_WriteNotifyBadge ==
  [][\A c \in CapIds :
       /\ Len(notified') > Len(notified) /\ cap'[c] # cap[c]
            => cap[c].url \in DOMAIN store
       /\ (cap[c].pc = "badge" /\ cap'[c].pc # "badge")
            => NotifiedFor(cap[c].url) # {}]_vars

\* C24 as claimed: a capture that was under way (its existence check
\* passed or still pending, or its record already written) when no clear-all
\* had been requested yet has no record in the store from the moment a
\* clear-all has answered success.
C24_ClearOutlivesCaptures ==
  \A c \in {1}, o \in OpIds :
    []((cap[c].pc # "none" /\ ops[o].kind = "none")
         => []((ops[o].kind = "clear" /\ ops[o].resp = "ok")
                 => cap[c].url \notin DOMAIN store))

\* The record a write-back read: updatedImage without its thumbnail.
ReadBy(t) == [lazy[t].image EXCEPT !.thumbnailData = NoThumbnailData]

\* The write-back of request t settles in this step.
WriteBackSettles(t) == lazy[t].pc = "save" /\ lazy'[t].pc = "done"

\* C25 as claimed: when the write-back of a thumbnail request settles and
\* the record it read has been deleted or cleared meanwhile, there is still
\* no record for the url afterwards; when it has been replaced, the
\* replacing record is still the one stored.
C25_WriteBackNeverResurrects ==
  [][\A t \in LazyIds :
       WriteBackSettles(t) =>
         LET u == lazy[t].url
         IN /\ u \notin DOMAIN store => u \notin DOMAIN store'
            /\ (u \in DOMAIN store /\
                [store[u] EXCEPT !.thumbnailData = NoThumbnailData] # ReadBy(t))
                 => (u \in DOMAIN store' /\ store'[u] = store[u])]_vars

\* C26 as claimed: as long as a record stays in the store, its url, tabId,
\* fullData and fileSize are the ones it was created with; a step changes
\* at most its thumbnailData.
C26_OnlyThumbnailAttached ==
  [][\A u \in DOMAIN store \cap DOMAIN store' :
       /\ store'[u].url = store[u].url
       /\ store'[u].tabId = store[u].tabId
       /\ store'[u].fullData = store[u].fullData
       /\ store'[u].fileSize = store[u].fileSize]_vars

\* C28 as claimed: the promise of every thumbnail request settles in the
\* end, resolved or rejected.
C28_ThumbnailRequestSettles ==
  \A t \in LazyIds : (lazy[t].pc # "none") ~> (lazy[t].result # "none")

C27_ExportTerminates ==
  /\ \A r \in ReqIds : Active(r) ~> ~Active(r)
  /\ [](ActiveRuns = {} => ~isZipOperationRunning)

\* C29: a capture whose existence check finds a record for its url ends
\* there (or with the check's own failure): it never fetches, and the step
\* leaves the store, the notifications and the badge as they were; a
\* capture that has ended does nothing more.
C29_DuplicateCaptureIsNoOp ==
  [][\A c \in CapIds :
       /\ (cap[c].pc = "check" /\ cap[c].url \in DOMAIN store /\ cap'[c] # cap[c])
            => /\ cap'[c].pc = "done"
               /\ cap'[c].outcome \in {"dup", "store_error"}
               /\ store' = store /\ notified' = notified /\ badge' = badge
       /\ (cap[c].pc = "done" /\ cap[c].outcome = "dup")
            => cap'[c] = cap[c]]_vars

\* C29 witness: the first capture stored its record from tab 7, the second,
\* for the same url from tab 8, found it: one record of tab 7, one
\* notification, a badge of one.
C29_Witness ==
  /\ cap[1].outcome = "stored" /\ cap[1].tabId = 7
  /\ cap[2].outcome = "dup" /\ cap[2].tabId = 8 /\ cap[2].url = cap[1].url
  /\ store[cap[1].url].tabId = 7
  /\ Len(notified) = 1 /\ badge = [kind |-> "count", val |-> 1]

\* The urls a run packed into its archives, and the urls of the records
\* with fullData it read.
PackedUrls(rs) ==
  UNION { {rs.zipBlobs[k][e].url : e \in 1..Len(rs.zipBlobs[k])} :
          k \in 1..Len(rs.zipBlobs) }

ReadUrls(rs) ==
  {rs.images[k].url : k \in {n \in 1..Len(rs.images) : rs.images[n].fullData # NoBlob}}

\* C31: the records of a run are those its read of the store returned, they
\* stay the same until the run ends, and once all archives are built their
\* entries are exactly the records read that have fullData, one entry each,
\* whatever has become of the store meanwhile.
C31_ExportPackagesItsSnapshot ==
  /\ [](\A r \in ReqIds :
          run[r].pc \in Built =>
            /\ PackedUrls(run[r]) = ReadUrls(run[r])
            /\ SumSeq([k \in 1..Len(run[r].zipBlobs) |-> Len(run[r].zipBlobs[k])])
                 = Cardinality(ReadUrls(run[r])))
  /\ [][\A r \in ReqIds :
          /\ (run[r].pc = "load" /\ run'[r].pc \notin {"load", "idle"})
               => run'[r].images = getAll(store)
          /\ (run[r].pc \notin {"idle", "load"} /\ Active(r)')
               => run'[r].images = run[r].images]_vars

\* C31 witness: a run has built its archive of the two records it read
\* while the store, cleared meanwhile, now holds one record captured since.
C31_Witness ==
  /\ run[1].pc \in Built /\ Cardinality(PackedUrls(run[1])) = 2
  /\ \E o \in OpIds : ops[o].kind = "clear" /\ ops[o].applied
  /\ count(store) = 1 /\ cap[1].outcome = "stored"

\* C32 as claimed: after a run that ended by a serialization failure or a
\* failed delivery, the badge in the end shows the record count (or "!"
\* when the count cannot be read), not a percentage or ERR.
C32_BadgeRestoredAfterFailure ==
  \A r \in ReqIds :
    (req[r].outcome \in {"zip_fail", "dl_fail"})
      ~> (badge = CountBadge \/ badge.kind = "!")

\* The extension a content type names, "" when it names no supported
\* format; and the extension the documented rule gives a record.
NamedByType(ct) == CASE ct = "image/jpeg" -> "jpg"
                     [] ct = "image/png"  -> "png"
                     [] OTHER             -> ""

DocumentedExtension(image) ==
  LET byType == NamedByType(image.fullData.type)
      urlExt == UrlPop(image.url)
  IN IF byType # "" THEN byType
     ELSE IF urlExt \in SUPPORTED_IMAGE_EXTENSIONS
       THEN (IF urlExt = "jpeg" THEN "jpg" ELSE urlExt)
     ELSE DEFAULT_EXTENSION

\* C33 as claimed: every entry of an archive ends with the extension its
\* record's content type names when it names a supported format, with the
\* url's extension only when it names none, and with png only when neither
\* does.
C33_ExtensionFromContentType ==
  \A r \in ReqIds :
    \A zip \in {run[r].zip} \cup {run[r].zipBlobs[k] : k \in 1..Len(run[r].zipBlobs)} :
      \A e \in 1..Len(zip) :
        \A n \in 1..Len(run[r].images) :
          run[r].images[n].url = zip[e].url =>
            zip[e].name[Len(zip[e].name)] = DocumentedExtension(run[r].images[n])

\* C34 as claimed: the computed size fits the box with both sides at least
\* one pixel; a bitmap that fits already keeps its size; otherwise the
\* longer side is its maximum and the shorter one the proportional value
\* rounded to the nearest integer.
C34_ThumbnailSize ==
  scale.done =>
    LET w == scale.width
        h == scale.height
        fits == w <= scale.maxWidth /\ h <= scale.maxHeight
    IN /\ scale.thumbWidth >= 1 /\ scale.thumbHeight >= 1
       /\ scale.thumbWidth <= scale.maxWidth
       /\ scale.thumbHeight <= scale.maxHeight
       /\ fits => (scale.thumbWidth = w /\ scale.thumbHeight = h)
       /\ (~fits /\ w > h) =>
             /\ scale.thumbWidth = scale.maxWidth
             /\ scale.thumbHeight = RoundDiv(h * scale.maxWidth, w)
       /\ (~fits /\ w <= h) =>
             /\ scale.thumbHeight = scale.maxHeight
             /\ scale.thumbWidth = RoundDiv(w * scale.maxHeight, h)

\* round((chunkIndex * 100 + local) / totalChunks) for some local in 0..100.
OverallOf(p, chunkIndex, totalChunks) ==
  \E local \in 0..100 : p = RoundDiv(chunkIndex * 100 + local, totalChunks)

\* C35: the last report of a run under way and the one before it are
\* integers in 0..100 of the documented form, the last for the chunk being
\* built and the one before for that chunk or an earlier one; and once
\* every archive is produced the last report is 100.
C35_ProgressValues ==
  \A r \in ReqIds :
    run[r].pc \notin {"idle", "load"} =>
      LET n == Len(Chunks(run[r]))
      IN /\ run[r].pct \in 0..100 /\ run[r].prevPct \in 0..100
         /\ OverallOf(run[r].pct, run[r].i, n)
         /\ \E i \in 0..run[r].i : OverallOf(run[r].prevPct, i, n)
         /\ run[r].pc \in Built => run[r].pct = 100

\* C35 witness: in a build of three chunks the second chunk is being
\* serialized at 33 percent: 44 after the packaging report of 50.
C35_Witness ==
  \E r \in ReqIds :
    /\ run[r].pc = "zip" /\ Len(Chunks(run[r])) = 3 /\ run[r].i = 1
    /\ run[r].prevPct = 50 /\ run[r].pct = 44

\* C36: the capture messages a page context has sent name pairwise
\* distinct urls, and every element has passed processImageElement's
\* guards at most once, whatever scans, mutations and refreshes have run.
C36_OneMessagePerUrl ==
  /\ \A a, b \in 1..Len(page.sent) : a # b => page.sent[a] # page.sent[b]
  /\ \A e \in Elems : page.processed[e] <= 1

\* C36 witness: two elements with the same src were both processed, the
\* second by a mutation or a refresh, and one message was sent.
C36_Witness ==
  /\ page.refreshed
  /\ page.processed[1] = 1 /\ page.processed[2] = 1
  /\ page.src[1] = page.src[2]
  /\ Len(page.sent) = 1

\* C37: every IMAGE_CAPTURED event has no field besides url, tabId and
\* timestamp, so neither fullData nor thumbnailData, and the event a
\* capture sends names the url and tabId of the record that capture wrote.
C37_EventIsLightweight ==
  [][ /\ \A k \in DOMAIN notified' :
           /\ DOMAIN notified'[k] \subseteq {"url", "tabId", "timestamp"}
           /\ {"url", "tabId"} \subseteq DOMAIN notified'[k]
      /\ \A c \in CapIds :
           (cap[c].pc = "badge" /\ cap'[c].pc = "done") =>
             /\ Len(notified') = Len(notified) + 1
             /\ notified'[Len(notified')].url = cap[c].url
             /\ notified'[Len(notified')].tabId = cap[c].tabId ]_vars

\* C37 witness: an event was sent for a record that is stored with its
\* bytes and a thumbnail.
C37_Witness ==
  /\ Len(notified) >= 1
  /\ notified[1].url \in DOMAIN store
  /\ store[notified[1].url].fullData.size >= 1
  /\ store[notified[1].url].thumbnailData # "none"

\* C38: once the runtime.onStartup handler has returned and no capture
\* call is in flight, the store holds no record and the badge is empty.
C38_StartupLeavesNothing ==
  ( /\ startup \in {"done", "failed"}
    /\ \A c \in CapIds : cap[c].pc \in {"none", "done"} )
  => (store = <<>> /\ badge.kind = "empty")

====
